---- MODULE Spec2Model ----
(***************************************************************************)
(* A model of the kratt worker: Worker.ProcessPR and Worker.Start driving  *)
(* the LocalGit, GitHub and CommandRunner capabilities.                    *)
(*                                                                         *)
(* Strings are sequences of tokens (a token is an indivisible piece of     *)
(* text), so that formatting, path derivation and pattern matching are     *)
(* computed rather than assumed.                                           *)
(***************************************************************************)
EXTENDS Integers, Sequences, FiniteSets, TLC

(***************************************************************************)
(* Bounds of the model.                                                    *)
(***************************************************************************)
MaxPR == 2

PRs == 1..MaxPR

(***************************************************************************)
(* Text helpers (package strings, path/filepath).                          *)
(***************************************************************************)
SL == "/"
SP == " "
QT == "\""

\* s[i..j] as a sequence (empty when j < i)
Slice(s, i, j) == IF j < i THEN <<>> ELSE SubSeq(s, i, j)

HasPrefixAt(s, i, p) ==
    /\ i >= 1
    /\ i + Len(p) - 1 <= Len(s)
    /\ \A k \in 1..Len(p) : s[i + k - 1] = p[k]

HasPrefix(s, p) == HasPrefixAt(s, 1, p)

Contains(s, sub) == \E i \in 1..(Len(s) + 1) : HasPrefixAt(s, i, sub)

\* index of the last "/" token of p, 0 if none
LastSlash(p) ==
    IF \E i \in 1..Len(p) : p[i] = SL
    THEN CHOOSE i \in 1..Len(p) : p[i] = SL /\ \A j \in (i + 1)..Len(p) : p[j] # SL
    ELSE 0

Base(p) == Slice(p, LastSlash(p) + 1, Len(p))

Dir(p) ==
    LET i == LastSlash(p)
    IN  IF i = 0 THEN <<".">>
        ELSE IF i = 1 THEN <<SL>>
        ELSE Slice(p, 1, i - 1)

Join(d, name) == IF d = <<SL>> THEN d \o name ELSE d \o <<SL>> \o name

(***************************************************************************)
(* The data the environment supplies.                                      *)
(***************************************************************************)
BranchX == <<"x">>
BranchFX == <<"feature", SL, "x">>
BranchMain == <<"main">>
BranchNames == {BranchX, BranchFX}

Root == <<SL, "fake", SL, "repo">>

HRN == "\"headRefName\":"
InfoJSON(b) == <<"{", "\"title\":", SP, QT, "t", QT, ",", HRN, SP, QT>> \o b \o <<QT, "}">>
InfoBranch(b) == <<"branch:", SP>> \o b
InfoHead(b) == <<"Head:", SP, SP>> \o b
InfoNone == <<"{", "\"title\":", SP, QT, "t", QT, "}">>
InfoEmptyRef == <<"{", HRN, SP, QT, QT, "}">>
InfoBoth == <<"{", "\"body\":", SP, QT, "branch:", SP>> \o BranchX
              \o <<QT, ",", HRN, QT>> \o BranchFX \o <<QT, "}">>
\* what the hosting service returns to a run
Infos == {InfoJSON(BranchX), InfoJSON(BranchFX), InfoBranch(BranchX), InfoNone, InfoEmptyRef}

OutputSet == {<<>>, <<"out">>}
ErrNil == <<>>
ErrExit == <<"exit status 1">>
InstructionText == <<"do thing">>
AgentCommands == {<<>>, <<"amp", "--stdin">>}
LintCommands == {<<>>, <<"go", "fmt", "./...">>}
TestCommands == {<<>>, <<"go", "test", "./...">>}
\* Worker configurations: an empty vector stops the run where it is first
\* indexed, so the later vectors of such a configuration are never read
Configs == {c \in [Instructions : {<<"You are a helpful AI assistant.">>},
                   AgentCommand : AgentCommands,
                   LintCommand : LintCommands,
                   TestCommand : TestCommands] :
              /\ c.AgentCommand = <<>> => c.LintCommand # <<>>
              /\ c.LintCommand = <<>> => c.TestCommand # <<>>}

\* fmt.Errorf("<msg>: %w", err)
Wrap(msg, cause) == <<msg>> \o cause

\* the flag defaults of the command line
DefaultConfig == [Instructions |-> <<"You are a helpful AI assistant.">>,
                  AgentCommand |-> <<"amp", "--stdin">>,
                  LintCommand |-> <<"go", "fmt", "./...">>,
                  TestCommand |-> <<"go", "test", "./...">>]

(***************************************************************************)
(* Worker.extractBranchFromPRInfo: three patterns tried in order, each     *)
(* matched leftmost; the first capture group is returned.                  *)
(***************************************************************************)
WS == {SP, "\n"}
BranchKeys == {"branch:", "Branch:", "BRANCH:"}
HeadKeys == {"head:", "Head:", "HEAD:"}

\* first index >= j whose token is in set (Len(s) + 1 if none)
FirstIn(s, j, set) ==
    IF \E k \in j..Len(s) : s[k] \in set
    THEN CHOOSE k \in j..Len(s) : s[k] \in set /\ \A m \in j..(k - 1) : s[m] \notin set
    ELSE Len(s) + 1

\* first index >= j whose token is not in set (Len(s) + 1 if none)
FirstNotIn(s, j, set) ==
    IF \E k \in j..Len(s) : s[k] \notin set
    THEN CHOOSE k \in j..Len(s) : s[k] \notin set /\ \A m \in j..(k - 1) : s[m] \in set
    ELSE Len(s) + 1

\* "headRefName":\s*"([^"]+)" anchored at i; <<>> when it does not match there
MatchHeadRefAt(s, i) ==
    LET j == FirstNotIn(s, i + 1, WS)
        k == FirstIn(s, j + 1, {QT})
    IN  IF s[i] = HRN /\ j <= Len(s) /\ s[j] = QT /\ k <= Len(s) /\ k > j + 1
        THEN Slice(s, j + 1, k - 1)
        ELSE <<>>

\* (?i)<key>\s*([^\s\n]+) anchored at i; <<>> when it does not match there
MatchKeyAt(keys, s, i) ==
    LET j == FirstNotIn(s, i + 1, WS)
        k == FirstIn(s, j, WS)
    IN  IF s[i] \in keys /\ j <= Len(s)
        THEN Slice(s, j, k - 1)
        ELSE <<>>

\* a variant that never finds the structured field
FindHeadRefNowhere(s) == <<>>

\* regexp.FindStringSubmatch(...)[1] for the structured pattern
FindHeadRef(s) ==
    IF \E i \in 1..Len(s) : MatchHeadRefAt(s, i) # <<>>
    THEN MatchHeadRefAt(s, CHOOSE i \in 1..Len(s) :
            /\ MatchHeadRefAt(s, i) # <<>>
            /\ \A m \in 1..(i - 1) : MatchHeadRefAt(s, m) = <<>>)
    ELSE <<>>

\* regexp.FindStringSubmatch(...)[1] for a textual pattern
FindKey(keys, s) ==
    IF \E i \in 1..Len(s) : MatchKeyAt(keys, s, i) # <<>>
    THEN MatchKeyAt(keys, s, CHOOSE i \in 1..Len(s) :
            /\ MatchKeyAt(keys, s, i) # <<>>
            /\ \A m \in 1..(i - 1) : MatchKeyAt(keys, s, m) = <<>>)
    ELSE <<>>

\* a variant that falls back to the default branch when no pattern matches
extractBranchOrDefault(prInfo) ==
    IF FindHeadRef(prInfo) # <<>> THEN FindHeadRef(prInfo)
    ELSE IF FindKey(BranchKeys, prInfo) # <<>> THEN FindKey(BranchKeys, prInfo)
    ELSE IF FindKey(HeadKeys, prInfo) # <<>> THEN FindKey(HeadKeys, prInfo)
    ELSE BranchMain

\* the branch, or <<>> for "could not extract branch name from PR info"
extractBranchFromPRInfo(prInfo) ==
    IF FindHeadRef(prInfo) # <<>> THEN FindHeadRef(prInfo)
    ELSE IF FindKey(BranchKeys, prInfo) # <<>> THEN FindKey(BranchKeys, prInfo)
    ELSE FindKey(HeadKeys, prInfo)

(***************************************************************************)
(* Worker.generatePrompt and Worker.formatResultsComment.                  *)
(***************************************************************************)
\* a variant that puts the envelope right after the instructions
generatePromptWithoutBlankLine(instructions, prInfo) ==
    instructions \o <<"\n">> \o <<"<pull-request>\n">> \o prInfo \o <<"\n</pull-request>">>

generatePrompt(instructions, prInfo) ==
    instructions \o <<"\n\n">> \o <<"<pull-request>\n">> \o prInfo \o <<"\n</pull-request>">>

\* the cross-mark and check-mark lines, and the opening and closing lines of a
\* preformatted block (three backquotes), each as one token
FailedMark == "[x] **Failed**\n"
PassedMark == "[v] **Passed**\n"
LintHeader == "### Lint Results\n"
TestHeader == "### Test Results\n"
Fence == "[fence]\n"
FenceEnd == "\n[fence]\n"

\* a variant that reports every check as passed
formatSectionAlwaysPassed(output, cerr) ==
    <<PassedMark>>
    \o (IF Len(output) > 0 THEN <<Fence>> \o output \o <<FenceEnd>> ELSE <<>>)

\* one check's part of the comment: the marker, the error text of a failing
\* check, and the captured output when there is any
formatSection(output, cerr) ==
    (IF cerr # ErrNil
     THEN <<FailedMark, Fence>> \o cerr \o <<FenceEnd>>
     ELSE <<PassedMark>>)
    \o (IF Len(output) > 0 THEN <<Fence>> \o output \o <<FenceEnd>> ELSE <<>>)

\* a variant that shows the output of a passing check only
formatResultsCommentOfPassing(lintOutput, lintErr, testOutput, testErr) ==
    <<"## Kratt Worker Results\n\n">>
    \o <<LintHeader>> \o formatSection(IF lintErr # ErrNil THEN <<>> ELSE lintOutput, lintErr)
    \o <<"\n">>
    \o <<TestHeader>> \o formatSection(IF testErr # ErrNil THEN <<>> ELSE testOutput, testErr)

formatResultsComment(lintOutput, lintErr, testOutput, testErr) ==
    <<"## Kratt Worker Results\n\n">>
    \o <<LintHeader>> \o formatSection(lintOutput, lintErr)
    \o <<"\n">>
    \o <<TestHeader>> \o formatSection(testOutput, testErr)

(***************************************************************************)
(* The state.                                                              *)
(*   impl        which capability set the Worker was built with: the real  *)
(*               one (GitRunner, GitHubCLI, ExecRunner) or the in-memory   *)
(*               fakes (FakeLocalGit, FakeGitHub, FakeCommandRunner)       *)
(*   failFlags   the Fail* fields of the fakes that are set                *)
(*   worktrees   the worktrees: records [path, branch] (git's worktree     *)
(*               list, or FakeLocalGit.worktrees)                          *)
(*   cwd         the process's working directory (FakeLocalGit.currentDir) *)
(*   branches    the local branches (FakeLocalGit.createdBranches)         *)
(*   dirty       the worktree paths with uncommitted changes               *)
(*   ahead       the branches with commits the remote does not have        *)
(*   pc, cfg, loc, err   the running call: position, Worker fields, local  *)
(*               variables and returned error (<<>> is nil)                *)
(*   calls       the capability calls of the running call, in order, each  *)
(*               with its arguments, returned value and returned error     *)
(*   gitCmds     the git commands of the last GitRunner.CommitAndPush      *)
(*   createdAt   history: for each branch, the path at which a run created *)
(*               its worktree (<<>> if none did)                           *)
(*   createdBefore  createdAt as it was when the running call began        *)
(*   now         the time that has passed since the running call began     *)
(*   ctx         the deadline of the context ProcessPR made (NoCtx before) *)
(*   cancelled   the caller of the running call has cancelled its own      *)
(*               context (a user interrupt)                                *)
(*   runs        the command invocations of the running call: which step,  *)
(*               the deadline of the context passed, and the time of start *)
(***************************************************************************)
VARIABLES impl, failFlags, worktrees, cwd, branches, dirty, ahead,
          pc, cfg, loc, err, calls, gitCmds, createdAt, createdBefore,
          now, ctx, cancelled, runs

vars == <<impl, failFlags, worktrees, cwd, branches, dirty, ahead,
          pc, cfg, loc, err, calls, gitCmds, createdAt, createdBefore,
          now, ctx, cancelled, runs>>
timeVars == <<now, ctx, cancelled, runs>>
envVars == <<impl, failFlags>>
gitVars == <<worktrees, cwd, branches, dirty, ahead>>
histVars == <<createdAt, createdBefore>>

FailFlagNames == {"FailCreateBranch", "FailWriteFile", "FailCommitAndPush",
                  "FailPushBranchUpstream", "FailCreatePR"}

Elsewhere == <<SL, "fake", SL, "elsewhere">>
AgentEffects == {"none", "edits", "commits", "both"}

\* a second run of ProcessPR in the same process: how far it is (0: there is
\* none), the path it got for its worktree, and the directories its
\* commands ran in
PeerIdle == [k |-> 0, path |-> <<>>, dirs |-> <<>>]

\* NewFakeCommandRunner: three empty maps
NewFakeCommandRunner == [stdinInputs |-> <<>>, responses |-> <<>>, errors |-> <<>>]

Loc0 == [prNumber |-> 0, prInfo |-> <<>>, branch |-> <<>>, exists |-> FALSE,
         newPath |-> <<>>, path |-> <<>>, prompt |-> <<>>, agent |-> "none",
         lintOutput |-> <<>>, lintErr |-> <<>>, testOutput |-> <<>>, testErr |-> <<>>,
         commentBody |-> <<>>, branchName |-> <<>>, instruction |-> <<>>,
         filePath |-> <<>>, cmd |-> "none", cmdCalls |-> <<>>,
         cmdErr |-> <<>>, cmdDone |-> FALSE, orphans |-> {}, arg |-> <<>>,
         peer |-> PeerIdle, runner |-> NewFakeCommandRunner]

Call(op, pr, args, ret, e) == [op |-> op, pr |-> pr, args |-> args, ret |-> ret, err |-> e]

Elems(s) == {s[i] : i \in 1..Len(s)}

(***************************************************************************)
(* GitRunner: the git commands, read off the repository state.             *)
(***************************************************************************)
\* d is path p or lies below it
IsUnder(d, p) == d = p \/ HasPrefix(d, p \o <<SL>>)

Paths(wts) == {w.path : w \in wts}

\* git rev-parse --show-toplevel: the root of the worktree holding d
Toplevel(wts, d) ==
    CHOOSE p \in Paths(wts) :
        /\ IsUnder(d, p)
        /\ \A q \in Paths(wts) : IsUnder(d, q) => Len(q) <= Len(p)

\* git branch --show-current in the worktree at path p
HeadOf(wts, p) == (CHOOSE w \in wts : w.path = p).branch

\* the lines of git worktree list --porcelain
WorktreeLines(wts) ==
    {<<"worktree ">> \o w.path : w \in wts}
        \cup {<<"HEAD ", "sha">>}
        \cup {<<"branch ", "refs/heads/">> \o w.branch : w \in wts}

GitCheckWorktreeExists(wts, branch) ==
    \E line \in WorktreeLines(wts) :
        HasPrefix(line, <<"branch ">>) /\ Contains(line, branch)

GitGetWorktreePath(wts, dir, branch) ==
    LET repoRoot == Toplevel(wts, dir)
        repoName == Base(repoRoot)
    IN  Join(Dir(repoRoot), repoName \o <<"-">> \o branch)

\* git worktree add <path> <branch> can succeed only at a free path and for
\* a branch that no worktree has checked out
GitCanCreateWorktree(wts, branch, path) ==
    /\ path \notin Paths(wts)
    /\ \A w \in wts : w.branch # branch

\* a variant without the early return on an empty status
GitCommitAndPushAlways(message, failAt, wtDirty, cur) ==
    LET Cmd(c, a, o) == [cmd |-> c, arg |-> a, out |-> o, ok |-> failAt # c]
        add == <<Cmd("add", <<".">>, <<>>)>>
        status == add \o <<Cmd("status", <<"--porcelain">>,
                               IF wtDirty /\ failAt # "status"
                               THEN <<"A  file", "\n">> ELSE <<>>)>>
        commit == status \o <<Cmd("commit", <<"-m">> \o message, <<>>)>>
        show == commit \o <<Cmd("branch", <<"--show-current">>,
                                IF failAt # "branch" THEN cur \o <<"\n">> ELSE <<>>)>>
        push == show \o <<Cmd("push", <<"-u", "origin">> \o cur, <<>>)>>
        R(e, cmds, c, p) == [err |-> e, cmds |-> cmds, committed |-> c, pushed |-> p]
    IN  IF failAt = "add" THEN R(Wrap("failed to add changes", ErrExit), add, FALSE, FALSE)
        ELSE IF failAt = "status"
            THEN R(Wrap("failed to check git status", ErrExit), status, FALSE, FALSE)
        ELSE IF failAt = "commit"
            THEN R(Wrap("failed to commit changes", ErrExit), commit, FALSE, FALSE)
        ELSE IF failAt = "branch"
            THEN R(Wrap("failed to get current branch", ErrExit), show, wtDirty, FALSE)
        ELSE IF failAt = "push"
            THEN R(Wrap("failed to push changes", ErrExit), push, wtDirty, FALSE)
        ELSE R(ErrNil, push, wtDirty, TRUE)

\* GitRunner.CommitAndPush in a worktree whose pending changes are wtDirty and
\* whose branch is cur; failAt is the command that fails if it is run.
\* Returns the error, the commands run, and whether a commit and a push happened.
GitCommitAndPush(message, failAt, wtDirty, cur) ==
    LET Cmd(c, a, o) == [cmd |-> c, arg |-> a, out |-> o, ok |-> failAt # c]
        add == <<Cmd("add", <<".">>, <<>>)>>
        status == add \o <<Cmd("status", <<"--porcelain">>,
                               IF wtDirty /\ failAt # "status"
                               THEN <<"A  file", "\n">> ELSE <<>>)>>
        commit == status \o <<Cmd("commit", <<"-m">> \o message, <<>>)>>
        show == commit \o <<Cmd("branch", <<"--show-current">>,
                                IF failAt # "branch" THEN cur \o <<"\n">> ELSE <<>>)>>
        push == show \o <<Cmd("push", <<"-u", "origin">> \o cur, <<>>)>>
        R(e, cmds, c, p) == [err |-> e, cmds |-> cmds, committed |-> c, pushed |-> p]
    IN  IF failAt = "add" THEN R(Wrap("failed to add changes", ErrExit), add, FALSE, FALSE)
        ELSE IF failAt = "status"
            THEN R(Wrap("failed to check git status", ErrExit), status, FALSE, FALSE)
        ELSE IF ~wtDirty THEN R(ErrNil, status, FALSE, FALSE)
        ELSE IF failAt = "commit"
            THEN R(Wrap("failed to commit changes", ErrExit), commit, FALSE, FALSE)
        ELSE IF failAt = "branch"
            THEN R(Wrap("failed to get current branch", ErrExit), show, TRUE, FALSE)
        ELSE IF failAt = "push"
            THEN R(Wrap("failed to push changes", ErrExit), push, TRUE, FALSE)
        ELSE R(ErrNil, push, TRUE, TRUE)

FailPoints == {"none", "add", "status", "commit", "branch", "push"}

(***************************************************************************)
(* FakeLocalGit.                                                           *)
(***************************************************************************)
FakeCheckWorktreeExists(wts, branch) == \E w \in wts : w.branch = branch

FakeGetWorktreePath(wts, branch) ==
    IF \E w \in wts : w.branch = branch
    THEN (CHOOSE w \in wts : w.branch = branch).path
    ELSE <<SL, "fake", SL, "repo", "-">> \o branch

\* a variant that keeps no record of the worktree
FakeCreateWorktreeUnrecorded(wts, branch, path) == wts

FakeCreateWorktree(wts, branch, path) ==
    {w \in wts : w.branch # branch} \cup {[path |-> path, branch |-> branch]}

(***************************************************************************)
(* The capabilities as the Worker sees them.                               *)
(***************************************************************************)
CheckWorktreeExists(branch) ==
    IF impl = "real" THEN GitCheckWorktreeExists(worktrees, branch)
    ELSE FakeCheckWorktreeExists(worktrees, branch)

GetWorktreePath(branch) ==
    IF impl = "real" THEN GitGetWorktreePath(worktrees, cwd, branch)
    ELSE FakeGetWorktreePath(worktrees, branch)

\* the outcomes a command of the real capability set can have; a fake
\* fails only where its Fail* field says so

\* Worker.Deadline, and the time the runtime takes to kill a command whose
\* context is done and to return from waiting for it
Deadline == 2
Grace == 1

\* no context has been made
NoCtx == -1
\* how long a process holding a killed check's output is followed
Hold == 1
\* how long fetching the pull request and preparing the worktree may take
Prep == 1

Init ==
    /\ impl \in {"real", "fake"}
    /\ failFlags = {}
    /\ IF impl = "real"
       THEN /\ worktrees \in {{[path |-> Root, branch |-> BranchMain]},
                              {[path |-> Root, branch |-> BranchMain],
                               [path |-> Elsewhere, branch |-> BranchX]}}
            /\ branches = {w.branch : w \in worktrees}
       ELSE /\ worktrees = {}
            /\ branches = {}
    /\ cwd = Root
    /\ dirty = {}
    /\ ahead = {}
    /\ pc = "idle"
    /\ cfg = DefaultConfig
    /\ loc = Loc0
    /\ err = ErrNil
    /\ calls = <<>>
    /\ gitCmds = <<>>
    /\ createdAt = [b \in BranchNames |-> <<>>]
    /\ createdBefore = createdAt
    /\ now = 0
    /\ ctx = NoCtx
    /\ cancelled = FALSE
    /\ runs = <<>>

\* no call is running: nothing was called yet, a command has returned (at
\* "exit" when it did so before calling the Worker), or a call made on the
\* Worker directly has returned
Idle == pc \in {"idle", "exit"} \/ (pc = "done" /\ (loc.cmd = "none" \/ loc.cmdDone))

\* a variant that returns from the running call without the error
ReturnWithoutError(e) == pc' = "done" /\ err' = ErrNil

\* return e from the running call
Return(e) == pc' = "done" /\ err' = e

\* a variant that returns the cause as it is, without the step's text
ProceedUnwrapped(e, wrapMsg, next) ==
    IF e # ErrNil THEN Return(e) ELSE pc' = next /\ err' = ErrNil

\* if err != nil { return fmt.Errorf("<wrapMsg>: %w", err) }, else go on
Proceed(e, wrapMsg, next) ==
    IF e # ErrNil THEN Return(Wrap(wrapMsg, e)) ELSE pc' = next /\ err' = ErrNil

Log(c) == calls' = Append(calls, c)

\* a command of the real capability set fails or not (e is its error); a
\* fake fails only where its Fail* field says so
CmdErrors(e) == IF impl = "real" THEN {ErrNil, e} ELSE {ErrNil}
FlagError(flag, e) == IF flag \in failFlags THEN e ELSE ErrNil

True == <<"true">>
False == <<"false">>

(***************************************************************************)
(* Worker.ProcessPR, one action per capability call.                       *)
(***************************************************************************)
\* a caller builds a Worker and calls ProcessPR(n)
CallProcessPR(n, c) ==
    /\ Idle
    /\ pc' = "GetPRInfo"
    /\ cfg' = c
    /\ loc' = [Loc0 EXCEPT !.prNumber = n]
    /\ err' = ErrNil
    /\ calls' = <<>>
    /\ gitCmds' = <<>>
    /\ createdBefore' = createdAt
    /\ now' = 0
    /\ ctx' = NoCtx
    /\ cancelled' = FALSE
    /\ runs' = <<>>
    /\ UNCHANGED <<envVars, gitVars, createdAt>>

\* a variant that goes straight to creating the worktree
PcAfterExtractSkippingCheck == "GetWorktreePathNew"

\* where ProcessPR goes once the branch is known (line 39)
PcAfterExtract == "CheckWorktreeExists"

\* 3.1 and the branch extraction of 3.2, with the hosting service answering
\* with one of infos
GetPRInfoFrom(infos) ==
    /\ pc = "GetPRInfo"
    /\ \/ /\ Log(Call("GetPRInfo", loc.prNumber, <<>>, <<>>, <<"PR not found">>))
          /\ Return(Wrap("failed to get PR info", <<"PR not found">>))
          /\ UNCHANGED loc
       \/ \E info \in infos :
            /\ Log(Call("GetPRInfo", loc.prNumber, <<>>, info, ErrNil))
            /\ IF extractBranchFromPRInfo(info) = <<>>
               THEN /\ Return(Wrap("failed to extract branch from PR info",
                                   <<"could not extract branch name from PR info">>))
                    /\ loc' = [loc EXCEPT !.prInfo = info]
               ELSE /\ pc' = PcAfterExtract
                    /\ loc' = [loc EXCEPT !.prInfo = info,
                                          !.branch = extractBranchFromPRInfo(info)]
                    /\ UNCHANGED err
    /\ UNCHANGED <<timeVars, envVars, gitVars, cfg, gitCmds, histVars>>

GetPRInfo == GetPRInfoFrom(Infos)

\* a variant that never creates the worktree
PcAfterCheckNeverCreate(exists) == "GetWorktreePath"

\* if !exists { ... } (line 44)
PcAfterCheck(exists) == IF exists THEN "GetWorktreePath" ELSE "GetWorktreePathNew"

StepCheckWorktreeExists ==
    /\ pc = "CheckWorktreeExists"
    /\ \E e \in CmdErrors(Wrap("failed to list worktrees", ErrExit)) :
        LET exists == e = ErrNil /\ CheckWorktreeExists(loc.branch)
        IN  /\ Log(Call("CheckWorktreeExists", 0, <<loc.branch>>,
                        IF exists THEN True ELSE False, e))
            /\ loc' = [loc EXCEPT !.exists = exists]
            /\ Proceed(e, "failed to check worktree existence", PcAfterCheck(exists))
    /\ UNCHANGED <<timeVars, envVars, gitVars, cfg, gitCmds, histVars>>

\* line 45: the path for a worktree that is to be created
StepGetWorktreePathNew ==
    /\ pc = "GetWorktreePathNew"
    /\ \E e \in CmdErrors(Wrap("failed to get repository root", ErrExit)) :
        LET path == IF e = ErrNil THEN GetWorktreePath(loc.branch) ELSE <<>>
        IN  /\ Log(Call("GetWorktreePath", 0, <<loc.branch>>, path, e))
            /\ loc' = [loc EXCEPT !.newPath = path]
            /\ Proceed(e, "failed to get worktree path", "CreateWorktree")
    /\ UNCHANGED <<timeVars, envVars, gitVars, cfg, gitCmds, histVars>>

\* line 50
StepCreateWorktree ==
    /\ pc = "CreateWorktree"
    /\ \E e0 \in CmdErrors(Wrap("failed to create worktree for branch", ErrExit)) :
        LET e == IF impl = "real"
                    /\ ~GitCanCreateWorktree(worktrees, loc.branch, loc.newPath)
                 THEN Wrap("failed to create worktree for branch", ErrExit)
                 ELSE e0
        IN  /\ Log(Call("CreateWorktree", 0, <<loc.branch, loc.newPath>>, <<>>, e))
            /\ IF e # ErrNil
               THEN UNCHANGED <<worktrees, branches, createdAt>>
               ELSE /\ worktrees' =
                         IF impl = "real"
                         THEN worktrees \cup {[path |-> loc.newPath, branch |-> loc.branch]}
                         ELSE FakeCreateWorktree(worktrees, loc.branch, loc.newPath)
                    /\ branches' =
                         IF impl = "real" THEN branches \cup {loc.branch} ELSE branches
                    /\ createdAt' = [createdAt EXCEPT ![loc.branch] = loc.newPath]
            /\ Proceed(e, "failed to create worktree", "GetWorktreePath")
    /\ UNCHANGED <<timeVars, envVars, cwd, dirty, ahead, cfg, loc, gitCmds, createdBefore>>

\* line 56
StepGetWorktreePath ==
    /\ pc = "GetWorktreePath"
    /\ \E e \in CmdErrors(Wrap("failed to get repository root", ErrExit)) :
        LET path == IF e = ErrNil THEN GetWorktreePath(loc.branch) ELSE <<>>
        IN  /\ Log(Call("GetWorktreePath", 0, <<loc.branch>>, path, e))
            /\ loc' = [loc EXCEPT !.path = path]
            /\ Proceed(e, "failed to get worktree path", "ChangeDirectory")
    /\ UNCHANGED <<timeVars, envVars, gitVars, cfg, gitCmds, histVars>>

\* a variant that leaves the process where it is
ChdirStaying(e, path) == cwd

\* os.Chdir: the working directory of the process is path from now on
Chdir(e, path) == IF e = ErrNil THEN path ELSE cwd

\* a variant that goes on to the agent whatever ChangeDirectory returned
ChangeDirectoryResultIgnored(e) == pc' = "RunAgent" /\ err' = ErrNil

\* lines 62-64
ChangeDirectoryResult(e) == Proceed(e, "failed to change directory", "RunAgent")

\* line 61; os.Chdir succeeds only into a directory that exists
StepChangeDirectory ==
    /\ pc = "ChangeDirectory"
    /\ \E e0 \in CmdErrors(Wrap("failed to change directory to", ErrExit)) :
        LET e == IF impl = "real" /\ loc.path \notin Paths(worktrees)
                 THEN Wrap("failed to change directory to", ErrExit)
                 ELSE e0
        IN  /\ Log(Call("ChangeDirectory", 0, <<loc.path>>, <<>>, e))
            /\ cwd' = Chdir(e, loc.path)
            /\ ChangeDirectoryResult(e)
    /\ UNCHANGED <<timeVars, envVars, worktrees, branches, dirty, ahead, cfg, loc, gitCmds, histVars>>

\* ExecRunner's error texts
RunWithStdinErr(command) == <<"failed to run command ">> \o command \o <<": ">> \o ErrExit
RunWithOutputErr(command) == <<"command ">> \o command \o <<" failed: ">> \o ErrExit

\* what the agent leaves behind in the worktree it ran in
AgentDirty(effect) ==
    IF effect \in {"edits", "both"} THEN dirty \cup {Toplevel(worktrees, cwd)} ELSE dirty
AgentAhead(effect) ==
    IF effect \in {"commits", "both"}
    THEN ahead \cup {HeadOf(worktrees, Toplevel(worktrees, cwd))} ELSE ahead

\* a variant that drops the agent's error
AgentResultIgnored(e) == pc' = "RunLint" /\ err' = ErrNil

\* context.WithTimeout(context.Background(), w.Deadline): the deadline of the
\* context made now; the caller's cancellation has no part in it
WithTimeout == now + Deadline

\* a command is started with a context whose deadline is c
Invocation(step, c) == [step |-> step, ctx |-> c, at |-> now, dir |-> cwd]

\* lines 74-76
AgentResult(e) == Proceed(e, "failed to run agent", "RunLint")

\* 3.3 and 3.4; indexing an empty AgentCommand panics
RunAgent ==
    /\ pc = "RunAgent"
    /\ ctx' = WithTimeout
    /\ IF cfg.AgentCommand = <<>>
       THEN /\ pc' = "panic"
            /\ loc' = [loc EXCEPT !.prompt = generatePrompt(cfg.Instructions, loc.prInfo)]
            /\ UNCHANGED <<err, calls, dirty, ahead, runs>>
       ELSE \E e \in {ErrNil, RunWithStdinErr(cfg.AgentCommand)} :
            \E effect \in (IF impl = "real" THEN AgentEffects ELSE {"none"}) :
            LET prompt == generatePrompt(cfg.Instructions, loc.prInfo)
            IN  /\ Log(Call("RunWithStdin", 0, <<prompt, cfg.AgentCommand>>, <<>>, e))
                /\ runs' = Append(runs, Invocation("agent", WithTimeout))
                /\ loc' = [loc EXCEPT !.prompt = prompt, !.agent = effect]
                /\ dirty' = AgentDirty(effect)
                /\ ahead' = AgentAhead(effect)
                /\ AgentResult(e)
    /\ UNCHANGED <<now, cancelled, envVars, worktrees, cwd, branches, cfg, gitCmds, histVars>>

\* a variant that gives the lint run a deadline of its own
LintCtxFresh == now + Deadline

\* the context passed to the lint run (line 79): the one made for the agent
LintCtx == ctx

\* a variant that ends the call after a failing lint run
PcAfterLintStopping(e) == IF e # ErrNil THEN "done" ELSE "RunTest"

\* line 80 follows line 79 whatever the lint run returned
PcAfterLint(e) == "RunTest"

\* 3.5, first call (line 79); the check's output and error are kept, never returned
RunLint ==
    /\ pc = "RunLint"
    /\ IF cfg.LintCommand = <<>>
       THEN pc' = "panic" /\ UNCHANGED <<loc, calls, runs>>
       ELSE \E out \in OutputSet, e \in {ErrNil, RunWithOutputErr(cfg.LintCommand)} :
            /\ Log(Call("RunWithOutput", 0, <<cfg.LintCommand>>, out, e))
            /\ runs' = Append(runs, Invocation("lint", LintCtx))
            /\ loc' = [loc EXCEPT !.lintOutput = out, !.lintErr = e]
            /\ pc' = PcAfterLint(e)
    /\ UNCHANGED <<now, ctx, cancelled, envVars, gitVars, cfg, err, gitCmds, histVars>>

\* 3.5, second call (line 80)
RunTest ==
    /\ pc = "RunTest"
    /\ IF cfg.TestCommand = <<>>
       THEN pc' = "panic" /\ UNCHANGED <<loc, calls, runs>>
       ELSE \E out \in OutputSet, e \in {ErrNil, RunWithOutputErr(cfg.TestCommand)} :
            /\ Log(Call("RunWithOutput", 0, <<cfg.TestCommand>>, out, e))
            /\ runs' = Append(runs, Invocation("test", ctx))
            /\ loc' = [loc EXCEPT !.testOutput = out, !.testErr = e]
            /\ pc' = "PostComment"
    /\ UNCHANGED <<now, ctx, cancelled, envVars, gitVars, cfg, err, gitCmds, histVars>>

\* a variant that drops the error of posting
PostCommentResultIgnored(e) == pc' = "CommitAndPush" /\ err' = ErrNil

\* lines 85-87
PostCommentResult(e) == Proceed(e, "failed to post comment", "CommitAndPush")

\* 3.6
PostComment ==
    /\ pc = "PostComment"
    /\ \E e \in CmdErrors(Wrap("failed to post comment to PR", ErrExit)) :
        LET commentBody == formatResultsComment(loc.lintOutput, loc.lintErr,
                                                loc.testOutput, loc.testErr)
        IN  /\ Log(Call("PostComment", loc.prNumber, <<commentBody>>, <<>>, e))
            /\ loc' = [loc EXCEPT !.commentBody = commentBody]
            /\ PostCommentResult(e)
    /\ UNCHANGED <<timeVars, envVars, gitVars, cfg, gitCmds, histVars>>

\* LocalGit.CommitAndPush(message) called by the Worker: on an error the Worker
\* returns it wrapped under wrapMsg, otherwise it moves on to next
CommitAndPushCall(message, wrapMsg, next) ==
    IF impl = "real"
    THEN \E failAt \in FailPoints :
         LET wt == Toplevel(worktrees, cwd)
             cur == HeadOf(worktrees, wt)
             r == GitCommitAndPush(message, failAt, wt \in dirty, cur)
         IN  /\ gitCmds' = r.cmds
             /\ dirty' = IF r.committed THEN dirty \ {wt} ELSE dirty
             /\ ahead' = IF r.pushed THEN ahead \ {cur}
                         ELSE IF r.committed THEN ahead \cup {cur} ELSE ahead
             /\ Log(Call("CommitAndPush", 0, <<message>>, <<>>, r.err))
             /\ Proceed(r.err, wrapMsg, next)
    ELSE LET e == FlagError("FailCommitAndPush", <<"fake commit and push failure">>)
         IN  /\ UNCHANGED <<gitCmds, dirty, ahead>>
             /\ Log(Call("CommitAndPush", 0, <<message>>, <<>>, e))
             /\ Proceed(e, wrapMsg, next)

AutomatedMessage == <<"Automated changes from kratt worker">>

\* 3.7
CommitAndPush ==
    /\ pc = "CommitAndPush"
    /\ CommitAndPushCall(AutomatedMessage, "failed to commit and push", "done")
    /\ UNCHANGED <<timeVars, envVars, worktrees, cwd, branches, cfg, loc, histVars>>

(***************************************************************************)
(* The agent, lint and test steps with the time they take.  ExecRunner     *)
(* starts the command with exec.CommandContext: a command whose context is *)
(* done when it is started is not run at all, a command in flight when the *)
(* context's deadline passes is killed.  FakeCommandRunner ignores the     *)
(* context and returns at once.                                            *)
(***************************************************************************)
CtxDone(c) == c # NoCtx /\ now >= c

Running == {"AgentRunning", "LintRunning", "TestRunning"}

\* a check whose program was killed, still read from: a process the program
\* had started holds the write end of the output pipe
Draining == {"LintDraining", "TestDraining"}

\* what a killed program had started: nothing, a process that has its own
\* output, or a process that inherited the program's output
Descendants == {"none", "detached", "holding"}

\* the errors of a command that was killed, and of one that was not started
KilledStdinErr(command) ==
    <<"failed to run command ">> \o command \o <<": ", "signal: killed">>
KilledOutputErr(command) == <<"command ">> \o command \o <<" failed: ", "signal: killed">>
ExpiredOutputErr(command) ==
    <<"command ">> \o command \o <<" failed: ", "context deadline exceeded">>

\* lines 26-66: the steps of ProcessPR before the prompt is made; gh and git
\* are run there without a context
Preparing == {"GetPRInfo", "CheckWorktreeExists", "GetWorktreePathNew", "CreateWorktree",
              "GetWorktreePath", "ChangeDirectory"}

\* time passes while a command runs; a command whose context is done is gone
\* within Grace
Tick ==
    /\ impl = "real"
    /\ \/ pc \in Preparing /\ now < Prep
       \/ pc \in Running /\ now < runs[Len(runs)].ctx + Grace
       \/ pc \in Draining /\ now < runs[Len(runs)].ctx + Grace + Hold
    /\ now' = now + 1
    /\ UNCHANGED <<ctx, cancelled, runs, envVars, gitVars, pc, cfg, loc, err, calls,
                   gitCmds, histVars>>

\* the caller cancels its own context while ProcessPR runs; ProcessPR was
\* given no context and made its own from context.Background()
CallerCancel ==
    /\ pc \notin {"idle", "done", "exit", "panic"}
    /\ ~cancelled
    /\ cancelled' = TRUE
    /\ UNCHANGED <<now, ctx, runs, envVars, gitVars, pc, cfg, loc, err, calls,
                   gitCmds, histVars>>

\* lines 67-73: the prompt, the context, and the start of the agent
StartAgent ==
    /\ pc = "RunAgent"
    /\ ctx' = WithTimeout
    /\ loc' = [loc EXCEPT !.prompt = generatePrompt(cfg.Instructions, loc.prInfo)]
    /\ IF cfg.AgentCommand = <<>>
       THEN pc' = "panic" /\ UNCHANGED runs
       ELSE pc' = "AgentRunning" /\ runs' = Append(runs, Invocation("agent", WithTimeout))
    /\ UNCHANGED <<now, cancelled, envVars, gitVars, cfg, err, calls, gitCmds, histVars>>

\* the agent has ended with error e, having left effect behind, and orph
\* still running
AgentEnds(e, effect, orph) ==
    /\ Log(Call("RunWithStdin", 0, <<loc.prompt, cfg.AgentCommand>>, <<>>, e))
    /\ loc' = [loc EXCEPT !.agent = effect, !.orphans = @ \cup orph]
    /\ dirty' = AgentDirty(effect)
    /\ ahead' = AgentAhead(effect)
    /\ AgentResult(e)
    /\ UNCHANGED <<timeVars, envVars, worktrees, cwd, branches, cfg, gitCmds, histVars>>

\* the agent exits by itself
AgentReturns ==
    /\ pc = "AgentRunning"
    /\ impl = "real" => ~CtxDone(runs[Len(runs)].ctx)
    /\ \E e \in {ErrNil, RunWithStdinErr(cfg.AgentCommand)} :
       \E effect \in (IF impl = "real" THEN AgentEffects ELSE {"none"}) :
            AgentEnds(e, effect, {})

\* the deadline has passed with the agent in flight: the agent's process is
\* killed, and no other; its output is not read, so that Run returns
AgentKilled ==
    /\ pc = "AgentRunning"
    /\ impl = "real"
    /\ CtxDone(runs[Len(runs)].ctx)
    /\ \E effect \in AgentEffects, d \in Descendants :
        AgentEnds(KilledStdinErr(cfg.AgentCommand), effect,
                  IF d = "none" THEN {} ELSE {"agent"})

\* a check has ended: its output and error are kept, and the next step follows
CheckEnds(step, command, out, e) ==
    /\ Log(Call("RunWithOutput", 0, <<command>>, out, e))
    /\ loc' = IF step = "lint"
              THEN [loc EXCEPT !.lintOutput = out, !.lintErr = e, !.orphans = @ \ {"holding"}]
              ELSE [loc EXCEPT !.testOutput = out, !.testErr = e, !.orphans = @ \ {"holding"}]
    /\ pc' = IF step = "lint" THEN PcAfterLint(e) ELSE "PostComment"

\* the deadline has passed with a check in flight: its process is killed, and
\* no other; CombinedOutput returns when the output pipe is closed, which a
\* process holding it keeps open
CheckKilled(step, command) ==
    \E d \in Descendants :
        IF d = "holding"
        THEN /\ pc' = IF step = "lint" THEN "LintDraining" ELSE "TestDraining"
             /\ loc' = [loc EXCEPT !.orphans = @ \cup {"holding"}]
             /\ UNCHANGED calls
        ELSE \E out \in OutputSet :
             /\ Log(Call("RunWithOutput", 0, <<command>>, out, KilledOutputErr(command)))
             /\ loc' = IF step = "lint"
                       THEN [loc EXCEPT !.lintOutput = out,
                                        !.lintErr = KilledOutputErr(command),
                                        !.orphans = @ \cup (IF d = "none" THEN {} ELSE {step})]
                       ELSE [loc EXCEPT !.testOutput = out,
                                        !.testErr = KilledOutputErr(command),
                                        !.orphans = @ \cup (IF d = "none" THEN {} ELSE {step})]
             /\ pc' = IF step = "lint" THEN "RunTest" ELSE "PostComment"

\* the process that held the output pipe has ended: the call returns
CheckDrained(step, command) ==
    \E out \in OutputSet : CheckEnds(step, command, out, KilledOutputErr(command))

\* a check is started with context c; with c done it fails without running
CheckStarts(step, command, c) ==
    /\ runs' = Append(runs, Invocation(step, c))
    /\ IF impl = "real" /\ CtxDone(c)
       THEN CheckEnds(step, command, <<>>, ExpiredOutputErr(command))
       ELSE /\ pc' = IF step = "lint" THEN "LintRunning" ELSE "TestRunning"
            /\ UNCHANGED <<loc, calls>>

\* line 79
StartLint ==
    /\ pc = "RunLint"
    /\ IF cfg.LintCommand = <<>>
       THEN pc' = "panic" /\ UNCHANGED <<loc, calls, runs>>
       ELSE CheckStarts("lint", cfg.LintCommand, LintCtx)
    /\ UNCHANGED <<now, ctx, cancelled, envVars, gitVars, cfg, err, gitCmds, histVars>>

LintReturns ==
    /\ pc = "LintRunning"
    /\ impl = "real" => ~CtxDone(runs[Len(runs)].ctx)
    /\ \E out \in OutputSet, e \in {ErrNil, RunWithOutputErr(cfg.LintCommand)} :
        CheckEnds("lint", cfg.LintCommand, out, e)
    /\ UNCHANGED <<timeVars, envVars, gitVars, cfg, err, gitCmds, histVars>>

LintKilled ==
    /\ pc = "LintRunning"
    /\ impl = "real"
    /\ CtxDone(runs[Len(runs)].ctx)
    /\ CheckKilled("lint", cfg.LintCommand)
    /\ UNCHANGED <<timeVars, envVars, gitVars, cfg, err, gitCmds, histVars>>

LintDrained ==
    /\ pc = "LintDraining"
    /\ CheckDrained("lint", cfg.LintCommand)
    /\ UNCHANGED <<timeVars, envVars, gitVars, cfg, err, gitCmds, histVars>>

\* line 80
StartTest ==
    /\ pc = "RunTest"
    /\ IF cfg.TestCommand = <<>>
       THEN pc' = "panic" /\ UNCHANGED <<loc, calls, runs>>
       ELSE CheckStarts("test", cfg.TestCommand, ctx)
    /\ UNCHANGED <<now, ctx, cancelled, envVars, gitVars, cfg, err, gitCmds, histVars>>

TestReturns ==
    /\ pc = "TestRunning"
    /\ impl = "real" => ~CtxDone(runs[Len(runs)].ctx)
    /\ \E out \in OutputSet, e \in {ErrNil, RunWithOutputErr(cfg.TestCommand)} :
        CheckEnds("test", cfg.TestCommand, out, e)
    /\ UNCHANGED <<timeVars, envVars, gitVars, cfg, err, gitCmds, histVars>>

TestKilled ==
    /\ pc = "TestRunning"
    /\ impl = "real"
    /\ CtxDone(runs[Len(runs)].ctx)
    /\ CheckKilled("test", cfg.TestCommand)
    /\ UNCHANGED <<timeVars, envVars, gitVars, cfg, err, gitCmds, histVars>>

TestDrained ==
    /\ pc = "TestDraining"
    /\ CheckDrained("test", cfg.TestCommand)
    /\ UNCHANGED <<timeVars, envVars, gitVars, cfg, err, gitCmds, histVars>>

(***************************************************************************)
(* Worker.Start, one action per capability call.                           *)
(***************************************************************************)
\* a variant that flattens the branch name into one file name
InstructionsPathFlat(b) ==
    <<"docs", SL>> \o [i \in 1..Len(b) |-> IF b[i] = SL THEN "-" ELSE b[i]]
        \o <<"-instructions.md">>

InstructionsPath(b) == <<"docs", SL>> \o b \o <<"-instructions.md">>
StatusPath(b) == <<"docs", SL>> \o b \o <<"-implementation-status.md">>
StartCommitMessage(b) == <<"Add instructions for ">> \o b
PRTitle(b) == <<"Implement ">> \o b
PRDescription(b) ==
    <<"Study ">> \o InstructionsPath(b)
        \o <<" and make a list of necessary implementation steps in ">> \o StatusPath(b)

CallStart(b, i) ==
    /\ Idle
    /\ pc' = "CreateBranch"
    /\ loc' = [Loc0 EXCEPT !.branchName = b, !.instruction = i]
    /\ err' = ErrNil
    /\ calls' = <<>>
    /\ gitCmds' = <<>>
    /\ createdBefore' = createdAt
    /\ UNCHANGED <<timeVars, envVars, gitVars, cfg, createdAt>>

\* a variant that creates the branch without switching to it
CheckoutNewWithoutSwitch(wts, wt, b) == wts

\* git checkout -b <b> in the worktree wt: its head becomes the new branch
CheckoutNew(wts, wt, b) ==
    {w \in wts : w.path # wt} \cup {[path |-> wt, branch |-> b]}

\* 8.1; git checkout -b fails for a branch that exists
StepCreateBranch ==
    /\ pc = "CreateBranch"
    /\ \E e0 \in CmdErrors(Wrap("failed to create and switch to branch", ErrExit)) :
        LET b == loc.branchName
            wt == Toplevel(worktrees, cwd)
            e == IF impl = "real"
                 THEN IF b \in branches
                      THEN Wrap("failed to create and switch to branch", ErrExit) ELSE e0
                 ELSE FlagError("FailCreateBranch", <<"fake create branch failure">>)
        IN  /\ Log(Call("CreateBranch", 0, <<b>>, <<>>, e))
            /\ IF e # ErrNil
               THEN UNCHANGED <<worktrees, branches, ahead>>
               ELSE /\ branches' = branches \cup {b}
                    /\ worktrees' =
                         IF impl = "real" THEN CheckoutNew(worktrees, wt, b) ELSE worktrees
                    /\ ahead' = IF impl = "real" THEN ahead \cup {b} ELSE ahead
            /\ Proceed(e, "failed to create branch", "WriteFile")
    /\ UNCHANGED <<timeVars, envVars, cwd, dirty, cfg, loc, gitCmds, histVars>>

\* a variant that drops the error of writing the file
WriteFileResultIgnored(e) == pc' = "CommitInstructions" /\ err' = ErrNil

\* lines 191-193
WriteFileResult(e) == Proceed(e, "failed to write instructions file", "CommitInstructions")

\* 8.2
StepWriteFile ==
    /\ pc = "WriteFile"
    /\ \E e0 \in CmdErrors(Wrap("failed to write file", ErrExit)) :
        LET filePath == InstructionsPath(loc.branchName)
            e == IF impl = "real" THEN e0
                 ELSE FlagError("FailWriteFile", <<"fake write file failure">>)
        IN  /\ Log(Call("WriteFile", 0, <<filePath, loc.instruction>>, <<>>, e))
            /\ loc' = [loc EXCEPT !.filePath = filePath]
            /\ dirty' = IF impl = "real" /\ e = ErrNil
                        THEN dirty \cup {Toplevel(worktrees, cwd)} ELSE dirty
            /\ WriteFileResult(e)
    /\ UNCHANGED <<timeVars, envVars, worktrees, cwd, branches, ahead, cfg, gitCmds, histVars>>

\* 8.3
StepCommitInstructions ==
    /\ pc = "CommitInstructions"
    /\ CommitAndPushCall(StartCommitMessage(loc.branchName),
                         "failed to commit instructions file", "PushBranchUpstream")
    /\ UNCHANGED <<timeVars, envVars, worktrees, cwd, branches, cfg, loc, histVars>>

\* 8.4; git push -u origin <branch>
StepPushBranchUpstream ==
    /\ pc = "PushBranchUpstream"
    /\ \E e0 \in CmdErrors(Wrap("failed to push branch upstream", ErrExit)) :
        LET b == loc.branchName
            e == IF impl = "real"
                 THEN IF b \notin branches
                      THEN Wrap("failed to push branch upstream", ErrExit) ELSE e0
                 ELSE FlagError("FailPushBranchUpstream", <<"fake push branch upstream failure">>)
        IN  /\ Log(Call("PushBranchUpstream", 0, <<b>>, <<>>, e))
            /\ ahead' = IF impl = "real" /\ e = ErrNil THEN ahead \ {b} ELSE ahead
            /\ Proceed(e, "failed to push branch upstream", "CreatePR")
    /\ UNCHANGED <<timeVars, envVars, worktrees, cwd, branches, dirty, cfg, loc, gitCmds, histVars>>

\* 8.5
StepCreatePR ==
    /\ pc = "CreatePR"
    /\ \E e0 \in CmdErrors(Wrap("failed to create PR with title", ErrExit)) :
        LET b == loc.branchName
            e == IF impl = "real" THEN e0
                 ELSE FlagError("FailCreatePR", <<"fake create PR failure">>)
        IN  /\ Log(Call("CreatePR", 0, <<PRTitle(b), PRDescription(b)>>, <<>>, e))
            /\ Proceed(e, "failed to create pull request", "done")
    /\ UNCHANGED <<timeVars, envVars, gitVars, cfg, loc, gitCmds, histVars>>

(***************************************************************************)
(* kratt worker start <branch-name> <instructions> (runWorkerStart).       *)
(***************************************************************************)
InvalidChars == {"~", "^", ":", "?", "*", "[", "]", SP, "\\"}

isValidBranchName(name) ==
    /\ \A k \in DOMAIN name : name[k] \notin InvalidChars
    /\ Len(name) # 0
    /\ name[1] \notin {".", SL}
    /\ name[Len(name)] \notin {".", SL}
    /\ \A k \in 1..(Len(name) - 1) : ~(name[k] = "." /\ name[k + 1] = ".")
    /\ \A k \in DOMAIN name : name[k] # ".."

\* a name the command refuses
BranchBad == <<"feature", SL>>
CmdBranchNames == BranchNames \cup {BranchBad}

\* the command makes call c; on error e it returns e, otherwise it goes on to next
CmdStep(c, e, next) ==
    /\ loc' = [loc EXCEPT !.cmdCalls = Append(@, c), !.cmdErr = e, !.cmdDone = e # ErrNil]
    /\ pc' = IF e # ErrNil THEN "exit" ELSE next

\* the command line is entered; the name is validated first
CallRunWorkerStart(b, i) ==
    /\ Idle
    /\ impl = "real"
    /\ LET e == IF isValidBranchName(b) THEN ErrNil
                ELSE <<"invalid branch name: must not contain invalid characters">>
       IN  /\ loc' = [Loc0 EXCEPT !.cmd = "start", !.branchName = b, !.instruction = i,
                                  !.cmdErr = e, !.cmdDone = e # ErrNil]
           /\ pc' = IF e # ErrNil THEN "exit" ELSE "CmdIsGitRepository"
    /\ err' = ErrNil
    /\ calls' = <<>>
    /\ gitCmds' = <<>>
    /\ createdBefore' = createdAt
    /\ UNCHANGED <<timeVars, envVars, gitVars, cfg, createdAt>>

\* a variant that hands on the error of the git command
GitIsGitRepositoryReporting(cmdErr) ==
    [ret |-> cmdErr = ErrNil,
     err |-> IF cmdErr # ErrNil THEN Wrap("git rev-parse failed", cmdErr) ELSE ErrNil]

\* GitRunner.IsGitRepository, given how git rev-parse --is-inside-work-tree
\* ended: any failure of the command is the answer false
GitIsGitRepository(cmdErr) == [ret |-> cmdErr = ErrNil, err |-> ErrNil]

\* the step that follows the two checks every worker command begins with
AfterRepositoryChecks == IF loc.cmd = "run" THEN "CmdLoadInstructions" ELSE "CmdBranchExists"

CmdIsGitRepository ==
    /\ pc = "CmdIsGitRepository"
    /\ \E cmdErr \in {ErrNil, ErrExit} :
        LET r == GitIsGitRepository(cmdErr)
        IN  CmdStep(Call("IsGitRepository", 0, cmdErr, IF r.ret THEN True ELSE False, r.err),
                    IF r.err # ErrNil THEN Wrap("error checking git repository", r.err)
                    ELSE IF ~r.ret THEN <<"current directory is not a git repository">>
                    ELSE ErrNil,
                    "CmdGetGitHubRepository")
    /\ UNCHANGED <<timeVars, envVars, gitVars, cfg, err, calls, gitCmds, histVars>>

\* the forms of a remote URL: scp-like, and with a scheme
GitHubHost == "github.com"
SSHRemote(host, path) == <<"git@", host, ":">> \o path
URLRemote(scheme, user, host, path) == <<scheme>> \o user \o <<host, SL>> \o path

Hosts == {GitHubHost, "gitlab.com"}
RepoPaths == {<<"acme", SL, "widgets", ".git">>, <<"acme", SL, "widgets">>}

\* what origin is set to in the repositories the command is run in
Remotes ==
    {SSHRemote(h, p) : h \in Hosts, p \in RepoPaths}
    \cup {URLRemote("https://", <<>>, h, p) : h \in Hosts, p \in RepoPaths}
    \cup {URLRemote("ssh://", <<"git@">>, GitHubHost, p) : p \in RepoPaths}
    \cup {URLRemote("https://", <<>>, GitHubHost, <<"acme">>)}
    \cup {URLRemote("https://", <<>>, GitHubHost, <<SL, "widgets", ".git">>),
          SSHRemote(GitHubHost, <<"acme", SL>>)}

\* git remote get-url origin: the URL and a newline, or a failure with no origin
OriginOutputs ==
    {[out |-> r \o <<"\n">>, err |-> ErrNil] : r \in Remotes}
    \cup {[out |-> <<>>, err |-> ErrExit]}

\* strings.TrimSpace
TrimSpace(s) ==
    LET i == FirstNotIn(s, 1, WS)
    IN  IF i > Len(s) THEN <<>>
        ELSE Slice(s, i, CHOOSE j \in i..Len(s) :
                            s[j] \notin WS /\ \A k \in (j + 1)..Len(s) : s[k] \in WS)

\* net/url.Parse as far as Host and Path go: with a scheme, the authority
\* runs to the first "/" and the host is what follows the user information;
\* with none, a first path segment with a colon in it is refused
urlParse(u) ==
    IF u # <<>> /\ u[1] \in {"https://", "ssh://"}
    THEN LET i == FirstIn(u, 2, {SL})
             authority == Slice(u, 2, i - 1)
         IN  [Host |-> IF authority # <<>> /\ authority[1] = "git@"
                       THEN Slice(authority, 2, Len(authority)) ELSE authority,
              Path |-> Slice(u, i, Len(u)),
              err |-> ErrNil]
    ELSE IF u # <<>> /\ u[1] # SL /\ \E k \in 1..(FirstIn(u, 1, {SL}) - 1) : u[k] = ":"
    THEN [Host |-> <<>>, Path |-> <<>>,
          err |-> <<"parse ">> \o u \o <<": ", "first path segment in URL cannot contain colon">>]
    ELSE [Host |-> <<>>, Path |-> u, err |-> ErrNil]

GitHubResult(owner, repo, e) == [owner |-> owner, repo |-> repo, err |-> e]

\* a variant that keeps the suffix of the repository name
parseGitHubPathKeepingSuffix(path) ==
    LET p == IF HasPrefix(path, <<SL>>) THEN Slice(path, 2, Len(path)) ELSE path
        i1 == FirstIn(p, 1, {SL})
    IN  IF i1 > Len(p) THEN GitHubResult(<<>>, <<>>, <<"invalid GitHub path format: ">> \o p)
        ELSE GitHubResult(Slice(p, 1, i1 - 1),
                          Slice(p, i1 + 1, FirstIn(p, i1 + 1, {SL}) - 1), ErrNil)

\* parseGitHubPath: the leading slash and the .git suffix go, and the first
\* two of the parts between slashes are the owner and the repository
parseGitHubPath(path) ==
    LET p1 == IF HasPrefix(path, <<SL>>) THEN Slice(path, 2, Len(path)) ELSE path
        p == IF p1 # <<>> /\ p1[Len(p1)] = ".git" THEN Slice(p1, 1, Len(p1) - 1) ELSE p1
        i1 == FirstIn(p, 1, {SL})
    IN  IF i1 > Len(p) THEN GitHubResult(<<>>, <<>>, <<"invalid GitHub path format: ">> \o p)
        ELSE GitHubResult(Slice(p, 1, i1 - 1),
                          Slice(p, i1 + 1, FirstIn(p, i1 + 1, {SL}) - 1), ErrNil)

\* GitRunner.GetGitHubRepository, given what git remote get-url origin gave
GetGitHubRepository(output, e) ==
    IF e # ErrNil THEN GitHubResult(<<>>, <<>>, Wrap("failed to get remote origin URL", e))
    ELSE LET remoteURL == TrimSpace(output)
             parsedURL == urlParse(remoteURL)
         IN  IF HasPrefix(remoteURL, <<"git@", GitHubHost, ":">>)
             THEN parseGitHubPath(Slice(remoteURL, 4, Len(remoteURL)))
             ELSE IF parsedURL.err # ErrNil
             THEN GitHubResult(<<>>, <<>>, Wrap("failed to parse remote URL", parsedURL.err))
             ELSE IF parsedURL.Host # <<GitHubHost>>
             THEN GitHubResult(<<>>, <<>>, <<"not a GitHub repository: ">> \o remoteURL)
             ELSE parseGitHubPath(parsedURL.Path)

\* the call as the commands log it: the remote read, and what came of it
GitHubCall(o) ==
    LET g == GetGitHubRepository(o.out, o.err)
    IN  Call("GetGitHubRepository", 0, o.out,
             IF g.err = ErrNil THEN <<g.owner, g.repo>> ELSE <<>>, g.err)

CmdGetGitHubRepository ==
    /\ pc = "CmdGetGitHubRepository"
    /\ \E o \in OriginOutputs :
        LET c == GitHubCall(o)
        IN  CmdStep(c,
                    IF c.err # ErrNil
                    THEN Wrap("no GitHub remote found in current repository", c.err)
                    ELSE ErrNil,
                    AfterRepositoryChecks)
    /\ UNCHANGED <<timeVars, envVars, gitVars, cfg, err, calls, gitCmds, histVars>>

\* git branch --list <name> prints the branch when there is one
GitBranchExists(b) == b \in branches

\* a variant that lets Start run whatever the check found
StartAllowedIgnoringExists(exists, e) == e = ErrNil

\* lines 147-152: Start is reached only past both returns
StartAllowed(exists, e) == e = ErrNil /\ ~exists

\* the existence check and, when it lets the command go on, the entry to Start
CmdBranchExists ==
    /\ pc = "CmdBranchExists"
    /\ \E e \in {ErrNil, Wrap("failed to list branches", ErrExit)} :
        LET exists == e = ErrNil /\ GitBranchExists(loc.branchName)
        IN  CmdStep(Call("BranchExists", 0, <<loc.branchName>>,
                         IF exists THEN True ELSE False, e),
                    IF StartAllowed(exists, e) THEN ErrNil
                    ELSE IF e # ErrNil THEN Wrap("error checking if branch exists", e)
                    ELSE <<"branch already exists: ">> \o loc.branchName,
                    "CreateBranch")
    /\ UNCHANGED <<timeVars, envVars, gitVars, cfg, err, calls, gitCmds, histVars>>

\* Start has returned to the command, which returns in its turn
CmdStartReturn ==
    /\ pc = "done"
    /\ loc.cmd = "start"
    /\ ~loc.cmdDone
    /\ loc' = [loc EXCEPT !.cmdDone = TRUE,
                          !.cmdErr = IF err # ErrNil THEN Wrap("failed to start branch", err)
                                     ELSE ErrNil]
    /\ UNCHANGED <<timeVars, envVars, gitVars, pc, cfg, err, calls, gitCmds, histVars>>

RunWorkerStartStep ==
    \/ CmdIsGitRepository
    \/ CmdGetGitHubRepository
    \/ CmdBranchExists
    \/ CmdStartReturn

(***************************************************************************)
(* kratt worker run <pr-number>.                                           *)
(***************************************************************************)
\* the value of a decimal digit, -1 for any other token
Digit(t) == IF t = "0" THEN 0 ELSE IF t = "1" THEN 1 ELSE IF t = "2" THEN 2
            ELSE IF t = "3" THEN 3 ELSE -1

RECURSIVE DigitsValue(_)
DigitsValue(d) ==
    IF d = <<>> THEN 0 ELSE 10 * DigitsValue(Slice(d, 1, Len(d) - 1)) + Digit(d[Len(d)])

\* strconv.Atoi: an optional sign and then digits, at least one
Atoi(a) ==
    LET digits == IF a # <<>> /\ a[1] \in {"+", "-"} THEN Tail(a) ELSE a
    IN  IF digits = <<>> \/ \E k \in DOMAIN digits : Digit(digits[k]) < 0
        THEN [val |-> 0, ok |-> FALSE]
        ELSE [val |-> IF a[1] = "-" THEN 0 - DigitsValue(digits) ELSE DigitsValue(digits),
              ok |-> TRUE]

\* a number of one digit as %d prints it
Itoa(n) == <<CHOOSE t \in {"0", "1", "2", "3"} : Digit(t) = n>>

\* the arguments the command is given
RunArgs == {<<"1">>, <<"+", "2">>, <<"0">>, <<"-", "1">>, <<"abc">>,
            <<"1", "x">>, <<>>}

\* the --instructions flag: not given, or the path of a file
InstructionFlags == {<<>>, <<"prompt.md">>}

\* opening and reading the instructions file
FileReads ==
    {[content |-> <<"Fix the build.">>, err |-> ErrNil],
     [content |-> <<>>, err |-> Wrap("failed to open instructions file", ErrExit)],
     [content |-> <<>>, err |-> Wrap("failed to read instructions file", ErrExit)]}

RunDefaultInstructions ==
    <<"You are an AI assistant helping with code review. Please analyze the pull request and make any necessary improvements to the code.">>

\* a variant that lets zero through
ValidPRNumberOrZero(a) == a.ok /\ a.val >= 0

\* line 28
ValidPRNumber(a) == a.ok /\ a.val > 0

\* the command line is entered; the number is parsed first
CallRunWorkerRun(a, i) ==
    /\ pc = "idle"
    /\ impl = "real"
    /\ LET n == Atoi(a)
           e == IF ValidPRNumber(n) THEN ErrNil
                ELSE <<"invalid pull request number: must be a positive integer">>
       IN  /\ loc' = [Loc0 EXCEPT !.cmd = "run", !.arg = a, !.prNumber = n.val,
                                  !.instruction = i, !.cmdErr = e, !.cmdDone = e # ErrNil]
           /\ pc' = IF e # ErrNil THEN "exit" ELSE "CmdIsGitRepository"
    /\ err' = ErrNil
    /\ calls' = <<>>
    /\ gitCmds' = <<>>
    /\ createdBefore' = createdAt
    /\ UNCHANGED <<timeVars, envVars, gitVars, cfg, createdAt>>

\* lines 52-83: the instructions are loaded, the Worker is built from the
\* flags, and ProcessPR is called
CmdLoadInstructions ==
    /\ pc = "CmdLoadInstructions"
    /\ \E f \in (IF loc.instruction = <<>>
                 THEN {[content |-> RunDefaultInstructions, err |-> ErrNil]}
                 ELSE FileReads) :
        /\ loc' = [loc EXCEPT !.cmdErr = f.err, !.cmdDone = f.err # ErrNil]
        /\ pc' = IF f.err # ErrNil THEN "exit" ELSE "GetPRInfo"
        /\ cfg' = IF f.err # ErrNil THEN cfg
                  ELSE [DefaultConfig EXCEPT !.Instructions = f.content]
    /\ UNCHANGED <<timeVars, envVars, gitVars, err, calls, gitCmds, histVars>>

\* lines 83-91: ProcessPR has returned to the command, which returns in its turn
CmdRunReturn ==
    /\ pc = "done"
    /\ loc.cmd = "run"
    /\ ~loc.cmdDone
    /\ loc' = [loc EXCEPT !.cmdDone = TRUE,
                          !.cmdErr = IF err # ErrNil
                                     THEN <<"failed to process PR #">> \o Itoa(loc.prNumber)
                                          \o <<": ">> \o err
                                     ELSE ErrNil]
    /\ UNCHANGED <<timeVars, envVars, gitVars, pc, cfg, err, calls, gitCmds, histVars>>

RunWorkerRunStep ==
    \/ CmdIsGitRepository
    \/ CmdGetGitHubRepository
    \/ CmdLoadInstructions
    \/ CmdRunReturn

(***************************************************************************)
(* The callers.                                                            *)
(***************************************************************************)
\* a test sets the Fail* fields of its fakes
SetFailFlags(f) ==
    /\ Idle
    /\ impl = "fake"
    /\ failFlags' = f
    /\ UNCHANGED <<timeVars, impl, gitVars, pc, cfg, loc, err, calls, gitCmds, histVars>>

\* a new process: the command line started in the main checkout, or a test
\* building fresh fakes
NewProcess ==
    /\ Idle \/ pc = "panic"
    /\ IF impl = "real"
       THEN /\ cwd' = Root
            /\ UNCHANGED <<worktrees, branches, failFlags, createdAt>>
       ELSE /\ cwd' = Root
            /\ worktrees' = {}
            /\ branches' = {}
            /\ failFlags' = {}
            /\ createdAt' = [b \in BranchNames |-> <<>>]
    /\ pc' = "idle"
    /\ cfg' = DefaultConfig
    /\ loc' = Loc0
    /\ err' = ErrNil
    /\ calls' = <<>>
    /\ gitCmds' = <<>>
    /\ createdBefore' = createdAt'
    /\ now' = 0
    /\ ctx' = NoCtx
    /\ cancelled' = FALSE
    /\ runs' = <<>>
    /\ UNCHANGED <<impl, dirty, ahead>>

ProcessPRStep ==
    \/ GetPRInfo
    \/ StepCheckWorktreeExists
    \/ StepGetWorktreePathNew
    \/ StepCreateWorktree
    \/ StepGetWorktreePath
    \/ StepChangeDirectory
    \/ RunAgent
    \/ RunLint
    \/ RunTest
    \/ PostComment
    \/ CommitAndPush

StartStep ==
    \/ StepCreateBranch
    \/ StepWriteFile
    \/ StepCommitInstructions
    \/ StepPushBranchUpstream
    \/ StepCreatePR

\* kratt worker run, and the tests of ProcessPR
Next ==
    \/ \E n \in PRs, c \in Configs : CallProcessPR(n, c)
    \/ ProcessPRStep
    \/ \E f \in SUBSET {"FailCommitAndPush"} : SetFailFlags(f)
    \/ NewProcess

Spec == Init /\ [][Next]_vars

\* one run of kratt worker run, from the command line to its return
NextRun ==
    \/ \E a \in RunArgs, i \in InstructionFlags : CallRunWorkerRun(a, i)
    \/ RunWorkerRunStep
    \/ ProcessPRStep

SpecRun == Init /\ [][NextRun]_vars

(***************************************************************************)
(* ProcessPR up to the branch, for what gh pr view --json prints: an       *)
(* object with the body, the comments, the head branch and the title.      *)
(***************************************************************************)
\* the headRefName field: left out, empty, or naming a branch
NoField == <<"-">>
RefFields == {NoField, <<>>, BranchX, BranchFX}

BodyTexts == {<<>>,
              <<"branch:", SP, "b1">>,
              <<"Head:", SP, "h1">>,
              <<"see", SP, "head:", SP, "h1", SP, "BRANCH:", SP, "b1">>,
              <<"Branch:", "b1", SP, "more">>}
CommentTexts == {<<>>, <<"branch:", SP, "b2">>, <<"HEAD:", "\n", "h2">>}

ViewJSON(body, comment, ref) ==
    <<"{", "\"body\":", QT>> \o body \o <<QT, ",", "\"comments\":", QT>> \o comment
    \o <<QT, ",">>
    \o (IF ref = NoField THEN <<>> ELSE <<HRN, QT>> \o ref \o <<QT, ",">>)
    \o <<"\"title\":", QT, "t", QT, "}">>

PRInfoTexts ==
    {ViewJSON(b, c, r) : b \in BodyTexts, c \in CommentTexts, r \in RefFields}

NextExtract ==
    \/ pc = "idle" /\ CallProcessPR(1, DefaultConfig)
    \/ GetPRInfoFrom(PRInfoTexts)

SpecExtract == Init /\ [][NextExtract]_vars

(***************************************************************************)
(* FakeCommandRunner on its own, as its test drives it: responses are set  *)
(* and commands are run, in any order.  The calls are logged in calls.     *)
(***************************************************************************)
\* how many calls of the runner are followed
MaxOps == 3

\* m[k] = v
MapSet(m, k, v) == [x \in (DOMAIN m) \cup {k} |-> IF x = k THEN v ELSE m[x]]

\* strings.Join(args, " ")
JoinSpace(args) ==
    IF args = <<>> THEN <<>>
    ELSE LET RECURSIVE J(_)
             J(i) == IF i = 1 THEN <<args[1]>> ELSE J(i - 1) \o <<" ", args[i]>>
         IN  J(Len(args))

\* fmt.Sprintf("%s %s", command, strings.Join(args, " "))
CmdKey(cmd) == <<cmd[1], " ">> \o JoinSpace(Tail(cmd))

\* the commands run, and what is set and given for them
FakeCommands == {<<"ls", "-la">>, <<"echo", "hello">>}
FakeOutputs == {<<"test output">>, <<"other output">>}
FakeStdins == {<<"test input">>, <<"other input">>}
DefaultOutput == <<"fake output">>

\* FakeCommandRunner.SetResponse on the runner r
SetResponse(r, commandPattern, output, e) ==
    [r EXCEPT !.responses = MapSet(@, commandPattern, output),
              !.errors = IF e # ErrNil THEN MapSet(@, commandPattern, e) ELSE @]

\* FakeCommandRunner.RunWithStdin: the runner after the call, and the error
FakeRunWithStdin(r, stdin, cmd) ==
    LET cmdKey == CmdKey(cmd)
    IN  [runner |-> [r EXCEPT !.stdinInputs = MapSet(@, cmdKey, stdin)],
         err |-> IF cmdKey \in DOMAIN r.errors THEN r.errors[cmdKey] ELSE ErrNil]

\* FakeCommandRunner.RunWithOutput: the output and the error
FakeRunWithOutput(r, cmd) ==
    LET cmdKey == CmdKey(cmd)
    IN  IF cmdKey \in DOMAIN r.responses
        THEN [output |-> r.responses[cmdKey],
              err |-> IF cmdKey \in DOMAIN r.errors THEN r.errors[cmdKey] ELSE ErrNil]
        ELSE [output |-> DefaultOutput, err |-> ErrNil]

\* FakeCommandRunner.GetStdinInput: the zero value for a key not recorded
GetStdinInput(r, command) ==
    IF command \in DOMAIN r.stdinInputs THEN r.stdinInputs[command] ELSE <<>>

FakeReady == pc = "idle" /\ impl = "fake" /\ Len(calls) < MaxOps

FakeFrame == UNCHANGED <<timeVars, envVars, gitVars, pc, cfg, err, gitCmds, histVars>>

CallSetResponse ==
    /\ FakeReady
    /\ \E cmd \in FakeCommands, output \in FakeOutputs, e \in {ErrNil, ErrExit} :
        /\ loc' = [loc EXCEPT !.runner = SetResponse(@, CmdKey(cmd), output, e)]
        /\ Log(Call("SetResponse", 0, <<CmdKey(cmd), output, e>>, <<>>, ErrNil))
    /\ FakeFrame

CallRunWithStdin ==
    /\ FakeReady
    /\ \E cmd \in FakeCommands, stdin \in FakeStdins :
        LET r == FakeRunWithStdin(loc.runner, stdin, cmd)
        IN  /\ loc' = [loc EXCEPT !.runner = r.runner]
            /\ Log(Call("RunWithStdin", 0, <<stdin, cmd>>, <<>>, r.err))
    /\ FakeFrame

CallRunWithOutput ==
    /\ FakeReady
    /\ \E cmd \in FakeCommands :
        LET r == FakeRunWithOutput(loc.runner, cmd)
        IN  /\ Log(Call("RunWithOutput", 0, <<cmd>>, r.output, r.err))
            /\ UNCHANGED loc
    /\ FakeFrame

NextFake ==
    \/ CallSetResponse
    \/ CallRunWithStdin
    \/ CallRunWithOutput

SpecFake == Init /\ [][NextFake]_vars

(***************************************************************************)
(* Two runs of ProcessPR in one process. The second run is followed for    *)
(* what it does to the state it shares with the first: the worktrees and   *)
(* the working directory; none of its calls fails but those that the       *)
(* state of the repository makes fail.                                     *)
(***************************************************************************)
PeerBranch == <<"y">>

\* the calls of a ProcessPR that creates its worktree, by name
PeerOps ==
    <<"GetPRInfo", "CheckWorktreeExists", "GetWorktreePath", "CreateWorktree",
      "GetWorktreePath", "ChangeDirectory",
      "RunWithStdin", "RunWithOutput", "RunWithOutput", "PostComment", "CommitAndPush">>

PeerReturned == Len(PeerOps) + 1

\* the second run is called while the first is at its first step
StartPeer ==
    /\ pc = "GetPRInfo"
    /\ loc.peer.k = 0
    /\ loc' = [loc EXCEPT !.peer.k = 1]
    /\ UNCHANGED <<timeVars, envVars, gitVars, pc, cfg, err, calls, gitCmds, histVars>>

\* the next call of the second run
PeerStep ==
    /\ loc.peer.k \in 1..Len(PeerOps)
    /\ LET peer == loc.peer
           op == PeerOps[peer.k]
           ok == CASE op = "CreateWorktree" ->
                        impl = "fake" \/ GitCanCreateWorktree(worktrees, PeerBranch, peer.path)
                   [] op = "ChangeDirectory" ->
                        impl = "fake" \/ peer.path \in Paths(worktrees)
                   [] OTHER -> TRUE
       IN  /\ loc' = [loc EXCEPT
                        !.peer.k = IF ok THEN peer.k + 1 ELSE PeerReturned,
                        !.peer.path = IF op = "GetWorktreePath"
                                      THEN GetWorktreePath(PeerBranch) ELSE peer.path,
                        !.peer.dirs = IF op \in {"RunWithStdin", "RunWithOutput", "CommitAndPush"}
                                      THEN Append(peer.dirs, cwd) ELSE peer.dirs]
           /\ worktrees' =
                IF op = "CreateWorktree" /\ ok
                THEN IF impl = "real"
                     THEN worktrees \cup {[path |-> peer.path, branch |-> PeerBranch]}
                     ELSE FakeCreateWorktree(worktrees, PeerBranch, peer.path)
                ELSE worktrees
           /\ branches' = IF op = "CreateWorktree" /\ ok /\ impl = "real"
                          THEN branches \cup {PeerBranch} ELSE branches
           /\ cwd' = IF op = "ChangeDirectory" THEN Chdir(IF ok THEN ErrNil ELSE ErrExit, peer.path)
                     ELSE cwd
    /\ UNCHANGED <<timeVars, envVars, dirty, ahead, pc, cfg, err, calls, gitCmds, histVars>>

NextTwo ==
    \/ pc = "idle" /\ CallProcessPR(1, DefaultConfig)
    \/ StartPeer
    \/ PeerStep
    \/ ProcessPRStep

SpecTwo == Init /\ [][NextTwo]_vars

\* ProcessPR with the time its commands take
TimedStep ==
    \/ GetPRInfo
    \/ StepCheckWorktreeExists
    \/ StepGetWorktreePathNew
    \/ StepCreateWorktree
    \/ StepGetWorktreePath
    \/ StepChangeDirectory
    \/ StartAgent
    \/ AgentReturns
    \/ AgentKilled
    \/ StartLint
    \/ LintReturns
    \/ LintKilled
    \/ LintDrained
    \/ StartTest
    \/ TestReturns
    \/ TestKilled
    \/ TestDrained
    \/ PostComment
    \/ CommitAndPush

\* the one call of ProcessPR that a kratt worker run makes
RunOnce == pc = "idle" /\ \E c \in Configs : CallProcessPR(1, c)

\* one run of kratt worker run, from its start to its return
NextDeadline ==
    \/ RunOnce
    \/ TimedStep
    \/ Tick
    \/ CallerCancel

SpecDeadline == Init /\ [][NextDeadline]_vars

\* kratt worker start, and the tests of Start
NextStart ==
    \/ \E b \in BranchNames : CallStart(b, InstructionText)
    \/ StartStep
    \/ \E b \in CmdBranchNames : CallRunWorkerStart(b, InstructionText)
    \/ RunWorkerStartStep
    \/ \E f \in SUBSET FailFlagNames : SetFailFlags(f)
    \/ NewProcess

SpecStart == Init /\ [][NextStart]_vars
(***************************************************************************)
(* The properties.  They read the call log of the running call.            *)
(***************************************************************************)
\* the positions in the log of the calls of operation op
CallIdx(op) == {i \in DOMAIN calls : calls[i].op = op}

\* some call of op returned an error
Failed(op) == \E i \in CallIdx(op) : calls[i].err # ErrNil

\* the part of a results comment under the lint heading, and under the test heading
LintSection(body) ==
    Slice(body, FirstIn(body, 1, {LintHeader}), FirstIn(body, 1, {TestHeader}) - 1)
TestSection(body) == Slice(body, FirstIn(body, 1, {TestHeader}), Len(body))

\* the marker a section has to carry for a check that returned e
MarkerFor(e) == IF e # ErrNil THEN FailedMark ELSE PassedMark

\* C1: when the agent step (RunWithStdin) returns an error, ProcessPR has
\* returned an error wrapping it, and the call made no lint or test run, no
\* PostComment and no CommitAndPush.
C1_AgentErrorAborts ==
    Failed("RunWithStdin") =>
        /\ pc = "done"
        /\ err = Wrap("failed to run agent", calls[Len(calls)].err)
        /\ calls[Len(calls)].op = "RunWithStdin"
        /\ CallIdx("RunWithOutput") = {}
        /\ CallIdx("PostComment") = {}
        /\ CallIdx("CommitAndPush") = {}

C1_Witness == Failed("RunWithStdin") /\ pc = "done" /\ err # ErrNil

\* C2: once lint and test have run, whatever each returned, PostComment is
\* called exactly once, for the PR being processed, with a body whose lint
\* section carries the marker of the lint outcome and whose test section
\* carries the marker of the test outcome; the call then goes on to
\* CommitAndPush, the outcome of the checks never ending it (only a failing
\* PostComment does).
C2_ChecksReportedThenCommit ==
    (Cardinality(CallIdx("RunWithOutput")) = 2 /\ pc \in {"CommitAndPush", "done"}) =>
        LET lint == CHOOSE i \in CallIdx("RunWithOutput") :
                        \A j \in CallIdx("RunWithOutput") : i <= j
            test == CHOOSE i \in CallIdx("RunWithOutput") :
                        \A j \in CallIdx("RunWithOutput") : j <= i
        IN  /\ Cardinality(CallIdx("PostComment")) = 1
            /\ \A p \in CallIdx("PostComment") :
                /\ p = test + 1
                /\ calls[p].pr = loc.prNumber
                /\ calls[p].pr = calls[1].pr
                /\ MarkerFor(calls[lint].err) \in Elems(LintSection(calls[p].args[1]))
                /\ MarkerFor(calls[test].err) \in Elems(TestSection(calls[p].args[1]))
                /\ (calls[p].err = ErrNil /\ pc = "done") =>
                        /\ Len(calls) = p + 1
                        /\ calls[p + 1].op = "CommitAndPush"
                /\ (calls[p].err = ErrNil /\ pc = "CommitAndPush") => Len(calls) = p
                /\ calls[p].err # ErrNil => pc = "done" /\ Len(calls) = p

C2_Witness ==
    /\ pc = "done"
    /\ err = ErrNil
    /\ Cardinality(CallIdx("RunWithOutput")) = 2
    /\ \E i, j \in CallIdx("RunWithOutput") :
        i < j /\ calls[i].err # ErrNil /\ calls[j].err = ErrNil
    /\ CallIdx("PostComment") # {}
    /\ calls[Len(calls)].op = "CommitAndPush"

\* C3: when PostComment returns an error, ProcessPR has returned an error
\* wrapping it and CommitAndPush was never called.
C3_PostErrorAborts ==
    Failed("PostComment") =>
        /\ pc = "done"
        /\ calls[Len(calls)].op = "PostComment"
        /\ err = Wrap("failed to post comment", calls[Len(calls)].err)
        /\ CallIdx("CommitAndPush") = {}

C3_Witness == Failed("PostComment") /\ pc = "done" /\ err # ErrNil

\* PR information that names no branch in any of the three forms
NoBranchInfos == {InfoNone, InfoEmptyRef}

\* C4: when GetPRInfo returns an error, or returns information from which no
\* branch can be taken, ProcessPR has returned an error and GetPRInfo is the
\* only call it made: no LocalGit operation, no command, no PostComment.
C4_NoBranchNoCalls ==
    (/\ calls # <<>>
     /\ calls[1].op = "GetPRInfo"
     /\ calls[1].err # ErrNil \/ calls[1].ret \in NoBranchInfos) =>
        /\ pc = "done"
        /\ err # ErrNil
        /\ Len(calls) = 1
        /\ gitCmds = <<>>

C4_Witness ==
    /\ pc = "done"
    /\ Len(calls) = 1
    /\ calls[1].op = "GetPRInfo"
    /\ calls[1].ret = InfoNone
    /\ err # ErrNil

\* C5: a CreateWorktree call is for the resolved branch, comes after a
\* CheckWorktreeExists call for that branch, and there is at most one in a
\* call of ProcessPR; a call that has resolved a branch and moved on has
\* checked for the worktree first.
C5_CheckBeforeCreate ==
    /\ Cardinality(CallIdx("CreateWorktree")) <= 1
    /\ \A i \in CallIdx("CreateWorktree") :
        /\ calls[i].args[1] = loc.branch
        /\ \E j \in CallIdx("CheckWorktreeExists") :
            j < i /\ calls[j].args = <<loc.branch>>
    /\ Len(calls) >= 2 =>
        calls[2].op = "CheckWorktreeExists" /\ calls[2].args = <<loc.branch>>

C5_Witness ==
    /\ pc = "done"
    /\ err = ErrNil
    /\ \E i \in CallIdx("CreateWorktree") : calls[i].err = ErrNil

\* the first half of C6: CreateWorktree is called only after CheckWorktreeExists
\* returned false, never after it returned true, and is the call that follows
\* the path lookup once the check has returned false
CreateOnlyWhenAbsent ==
    /\ \A i \in CallIdx("CreateWorktree") :
        \E j \in CallIdx("CheckWorktreeExists") :
            j < i /\ calls[j].err = ErrNil /\ calls[j].ret = False
    /\ \A j \in CallIdx("CheckWorktreeExists") :
        /\ calls[j].ret = True => CallIdx("CreateWorktree") = {}
        /\ (calls[j].err = ErrNil /\ calls[j].ret = False /\ Len(calls) >= j + 2) =>
                calls[j + 2].op = "CreateWorktree"

\* the second half of C6: in a call for a branch whose worktree an earlier
\* call created, there is no CreateWorktree call and every ChangeDirectory
\* call is into the path at which that worktree was created
LaterRunReusesWorktree ==
    (loc.branch \in BranchNames /\ createdBefore[loc.branch] # <<>>) =>
        /\ CallIdx("CreateWorktree") = {}
        /\ \A i \in CallIdx("ChangeDirectory") :
            calls[i].args[1] = createdBefore[loc.branch]

\* C6: CreateWorktree is called exactly when CheckWorktreeExists returned
\* false; so once a call has created the worktree of a branch, a later call
\* for that branch creates nothing and changes into that same worktree path.
C6_CreateIffAbsentThenReuse == CreateOnlyWhenAbsent /\ LaterRunReusesWorktree

\* the git commands of the last GitRunner.CommitAndPush, by name
CmdNames == [k \in DOMAIN gitCmds |-> gitCmds[k].cmd]

\* C9: GitRunner.CommitAndPush stages everything and reads the status; with
\* an empty status it returns no error and runs neither commit nor push;
\* with pending changes it commits with the message it was given and then
\* pushes; a failing add, status, commit or push ends it with an error.
C9_CommitAndPushContract ==
    \A i \in CallIdx("CommitAndPush") :
        (impl = "real" /\ i = Len(calls)) =>
            /\ Len(gitCmds) >= 1
            /\ gitCmds[1].cmd = "add"
            /\ \A k \in DOMAIN gitCmds :
                ~gitCmds[k].ok => calls[i].err # ErrNil /\ k = Len(gitCmds)
            /\ (\A k \in DOMAIN gitCmds : gitCmds[k].ok) => calls[i].err = ErrNil
            /\ (Len(gitCmds) >= 2 /\ gitCmds[2].ok /\ gitCmds[2].out = <<>>) =>
                /\ calls[i].err = ErrNil
                /\ CmdNames = <<"add", "status">>
            /\ (Len(gitCmds) >= 2 /\ gitCmds[2].ok /\ gitCmds[2].out # <<>>) =>
                /\ Len(gitCmds) >= 3
                /\ gitCmds[3].cmd = "commit"
                /\ gitCmds[3].arg = <<"-m">> \o calls[i].args[1]
                /\ calls[i].err = ErrNil =>
                    /\ CmdNames = <<"add", "status", "commit", "branch", "push">>
                    /\ Toplevel(worktrees, cwd) \notin dirty
                    /\ HeadOf(worktrees, Toplevel(worktrees, cwd)) \notin ahead

C9_Witness ==
    /\ pc = "done"
    /\ err = ErrNil
    /\ impl = "real"
    /\ calls # <<>>
    /\ calls[Len(calls)].op = "CommitAndPush"
    /\ Len(gitCmds) = 5
    /\ gitCmds[5].cmd = "push"

\* C10: when ProcessPR has returned no error after an agent that changed
\* something, nothing of the worktree is left uncommitted and the branch has
\* no commit that the remote lacks.
C10_AgentChangesReachRemote ==
    (pc = "done" /\ err = ErrNil /\ impl = "real" /\ loc.agent # "none") =>
        /\ Toplevel(worktrees, cwd) \notin dirty
        /\ HeadOf(worktrees, Toplevel(worktrees, cwd)) \notin ahead

\* the file names Start is to use for the two branch names of the model
ExpectedInstructions(b) ==
    IF b = BranchX THEN <<"docs", "/", "x", "-instructions.md">>
    ELSE <<"docs", "/", "feature", "/", "x", "-instructions.md">>
ExpectedStatus(b) ==
    IF b = BranchX THEN <<"docs", "/", "x", "-implementation-status.md">>
    ELSE <<"docs", "/", "feature", "/", "x", "-implementation-status.md">>

StartOrder == <<"CreateBranch", "WriteFile", "CommitAndPush", "PushBranchUpstream", "CreatePR">>

\* C7: a Start that returned no error made exactly five calls, in this order:
\* CreateBranch(branch), WriteFile(docs/<branch>-instructions.md, instruction)
\* with the branch name as it is (a "/" in it gives a nested path),
\* CommitAndPush("Add instructions for <branch>"), PushBranchUpstream(branch),
\* and one CreatePR("Implement <branch>", a description naming the
\* instructions file and the implementation-status file).
C7_StartSequence ==
    (pc = "done" /\ err = ErrNil /\ loc.branchName # <<>>) =>
        LET b == loc.branchName
        IN  /\ [i \in DOMAIN calls |-> calls[i].op] = StartOrder
            /\ \A i \in DOMAIN calls : calls[i].err = ErrNil
            /\ calls[1].args = <<b>>
            /\ calls[2].args = <<ExpectedInstructions(b), InstructionText>>
            /\ b = BranchFX => Dir(calls[2].args[1]) = <<"docs", "/", "feature">>
            /\ calls[3].args = << <<"Add instructions for ">> \o b >>
            /\ calls[4].args = <<b>>
            /\ calls[5].args[1] = <<"Implement ">> \o b
            /\ Contains(calls[5].args[2], ExpectedInstructions(b))
            /\ Contains(calls[5].args[2], ExpectedStatus(b))

C7_Witness ==
    /\ pc = "done"
    /\ err = ErrNil
    /\ loc.branchName = BranchFX
    /\ Len(calls) = 5
    /\ calls[5].op = "CreatePR"

\* the text with which Start reports the failure of a step
StepMessage(op) ==
    CASE op = "CreateBranch" -> "failed to create branch"
      [] op = "WriteFile" -> "failed to write instructions file"
      [] op = "CommitAndPush" -> "failed to commit instructions file"
      [] op = "PushBranchUpstream" -> "failed to push branch upstream"
      [] op = "CreatePR" -> "failed to create pull request"

\* C8: the calls of Start follow the order of its five steps, and when one
\* of them returns an error it is the last call made and Start has returned
\* the text of that step followed by the error the step returned.
C8_StartStepFailure ==
    /\ Len(calls) <= 5
    /\ \A i \in DOMAIN calls :
        /\ calls[i].op = StartOrder[i]
        /\ calls[i].err # ErrNil =>
            /\ i = Len(calls)
            /\ pc = "done"
            /\ err = <<StepMessage(calls[i].op)>> \o calls[i].err

C8_Witness ==
    /\ pc = "done"
    /\ Len(calls) = 4
    /\ calls[4].op = "PushBranchUpstream"
    /\ calls[4].err # ErrNil
    /\ err # ErrNil

\* the text with which ProcessPR reports the failure of a capability call
ProcessStepMessage(op) ==
    CASE op = "GetPRInfo" -> "failed to get PR info"
      [] op = "CheckWorktreeExists" -> "failed to check worktree existence"
      [] op = "GetWorktreePath" -> "failed to get worktree path"
      [] op = "CreateWorktree" -> "failed to create worktree"
      [] op = "ChangeDirectory" -> "failed to change directory"
      [] op = "RunWithStdin" -> "failed to run agent"
      [] op = "PostComment" -> "failed to post comment"
      [] op = "CommitAndPush" -> "failed to commit and push"
      [] OTHER -> "no such step"

\* C14: no call ends in a panic, whatever the Worker's argument vectors are;
\* a call that has ended returned no error or an error that starts with the
\* text of the stage that stopped it.
C14_AlwaysTerminal ==
    /\ pc # "panic"
    /\ (pc = "done" /\ err # ErrNil) =>
        \/ err[1] = "failed to extract branch from PR info"
        \/ \E i \in DOMAIN calls : err[1] = ProcessStepMessage(calls[i].op)

\* the calls whose error ProcessPR returns: all but the lint and test runs
NonCheckFailures == {i \in DOMAIN calls : calls[i].op # "RunWithOutput" /\ calls[i].err # ErrNil}

\* the branch extraction failed: GetPRInfo is the only call and it succeeded
ExtractionFailed ==
    /\ Len(calls) = 1
    /\ calls[1].err = ErrNil
    /\ calls[1].ret \in NoBranchInfos

\* C15: a call of ProcessPR that has returned carries an error exactly when
\* a step other than lint and test failed; the failing call is then the last
\* call made and the error is the text of that step followed by the error
\* the step returned (for the extraction, the text of the extraction and its
\* cause); a call still running has had no such failure.
C15_ErrorIffStepFailed ==
    /\ pc = "done" =>
        /\ err # ErrNil <=> (NonCheckFailures # {} \/ ExtractionFailed)
        /\ \A i \in NonCheckFailures :
            /\ i = Len(calls)
            /\ err = <<ProcessStepMessage(calls[i].op)>> \o calls[i].err
        /\ ExtractionFailed =>
            err = <<"failed to extract branch from PR info",
                    "could not extract branch name from PR info">>
    /\ pc \notin {"done", "idle"} => NonCheckFailures = {} /\ err = ErrNil

C15_Witness ==
    /\ pc = "done"
    /\ Len(calls) = 4
    /\ calls[4].op = "CreateWorktree"
    /\ calls[4].err # ErrNil
    /\ err[1] = "failed to create worktree"

\* the prompt ProcessPR is to feed the agent for PR information info
ExpectedPrompt(instructions, info) ==
    instructions \o <<"\n\n", "<pull-request>\n">> \o info \o <<"\n</pull-request>">>

\* the calls of a ProcessPR in which nothing fails, by name
OpsWhenPresent ==
    <<"GetPRInfo", "CheckWorktreeExists", "GetWorktreePath", "ChangeDirectory",
      "RunWithStdin", "RunWithOutput", "RunWithOutput", "PostComment", "CommitAndPush">>
OpsWhenAbsent ==
    <<"GetPRInfo", "CheckWorktreeExists", "GetWorktreePath", "CreateWorktree",
      "GetWorktreePath", "ChangeDirectory",
      "RunWithStdin", "RunWithOutput", "RunWithOutput", "PostComment", "CommitAndPush">>

\* C16: a ProcessPR that returned no error made its calls in the fixed
\* order: GetPRInfo, the existence check, the creation of the worktree when
\* the check returned false, the change into the worktree path, one agent
\* run with the generated prompt, one lint run, one test run, one
\* PostComment for the PR that was fetched, one CommitAndPush with the
\* message "Automated changes from kratt worker"; and a worktree for the
\* branch then exists.
C16_SuccessSequence ==
    (pc = "done" /\ err = ErrNil) =>
        LET n == Len(calls)
            ops == [i \in DOMAIN calls |-> calls[i].op]
        IN  /\ ops = IF calls[2].ret = False THEN OpsWhenAbsent ELSE OpsWhenPresent
            /\ calls[2].args = <<loc.branch>>
            /\ \A i \in CallIdx("CreateWorktree") :
                calls[i].args = <<loc.branch, calls[i - 1].ret>>
            /\ calls[n - 5].args = <<calls[n - 6].ret>>
            /\ calls[n - 4].args =
                    <<ExpectedPrompt(cfg.Instructions, calls[1].ret), <<"amp", "--stdin">> >>
            /\ calls[n - 3].args = << <<"go", "fmt", "./...">> >>
            /\ calls[n - 2].args = << <<"go", "test", "./...">> >>
            /\ calls[n - 1].pr = calls[1].pr
            /\ calls[n].args = << <<"Automated changes from kratt worker">> >>
            /\ \E w \in worktrees : w.branch = loc.branch

C16_Witness ==
    /\ pc = "done"
    /\ err = ErrNil
    /\ Len(calls) = 11
    /\ calls[4].op = "CreateWorktree"
    /\ \A i \in DOMAIN calls : calls[i].err = ErrNil

\* C18: when Start has returned an error from a step after CreateBranch (a
\* failing WriteFile among them), the branch that CreateBranch made is still
\* there and, in the repository, still the current branch: nothing is rolled
\* back.
C18_NoRollback ==
    (pc = "done" /\ err # ErrNil /\ loc.branchName # <<>> /\ Len(calls) >= 2) =>
        /\ calls[1].op = "CreateBranch"
        /\ calls[1].err = ErrNil
        /\ loc.branchName \in branches
        /\ impl = "real" => HeadOf(worktrees, Toplevel(worktrees, cwd)) = loc.branchName
        /\ \A i \in DOMAIN calls : calls[i].op \in Elems(StartOrder)

C18_Witness ==
    /\ pc = "done"
    /\ impl = "real"
    /\ Len(calls) = 2
    /\ calls[2].op = "WriteFile"
    /\ calls[2].err # ErrNil
    /\ HeadOf(worktrees, Toplevel(worktrees, cwd)) = loc.branchName

\* C19: in the repository, until Start calls PushBranchUpstream the branch
\* it created has not been pushed: the CommitAndPush of the instructions
\* file completed no push of it, with or without setting the upstream.
C19_UpstreamPushIsFirst ==
    (/\ impl = "real"
     /\ loc.branchName # <<>>
     /\ calls # <<>>
     /\ calls[1].err = ErrNil
     /\ CallIdx("PushBranchUpstream") = {}) =>
        /\ loc.branchName \in ahead
        /\ \A k \in DOMAIN gitCmds : ~(gitCmds[k].cmd = "push" /\ gitCmds[k].ok)

\* the calls Start makes have begun
StartEntered == calls # <<>> \/ pc \in {"CreateBranch", "WriteFile", "CommitInstructions",
                                        "PushBranchUpstream", "CreatePR", "done"}

\* C17: in the start command, Start is entered only when the last thing the
\* command did was a BranchExists call for the branch that returned false
\* and no error; and when BranchExists returned true or an error the command
\* has returned an error and none of the five calls of Start was made.
C17_StartOnlyForNewBranch ==
    loc.cmd = "start" =>
        /\ StartEntered =>
            /\ loc.cmdCalls # <<>>
            /\ loc.cmdCalls[Len(loc.cmdCalls)].op = "BranchExists"
            /\ loc.cmdCalls[Len(loc.cmdCalls)].args = <<loc.branchName>>
            /\ loc.cmdCalls[Len(loc.cmdCalls)].ret = False
            /\ loc.cmdCalls[Len(loc.cmdCalls)].err = ErrNil
        /\ \A k \in DOMAIN loc.cmdCalls :
            (loc.cmdCalls[k].op = "BranchExists"
                /\ (loc.cmdCalls[k].ret = True \/ loc.cmdCalls[k].err # ErrNil)) =>
                /\ pc = "exit"
                /\ loc.cmdDone
                /\ loc.cmdErr # ErrNil
                /\ calls = <<>>

C17_Witness ==
    /\ loc.cmd = "start"
    /\ pc = "exit"
    /\ loc.cmdErr = <<"branch already exists: ">> \o loc.branchName
    /\ loc.cmdCalls[Len(loc.cmdCalls)].ret = True
    /\ calls = <<>>

\* the calls that ended because the command was killed at the deadline
KilledCalls(op) ==
    {i \in CallIdx(op) : calls[i].err # ErrNil
                           /\ calls[i].err[Len(calls[i].err)] = "signal: killed"}

\* an error that says a deadline or timeout was the cause
IsTimeoutError(e) ==
    \E k \in DOMAIN e : e[k] \in {"context deadline exceeded", "timeout", "timed out"}

\* the first half of C11: the agent is never waited for beyond the deadline
\* plus the grace period after its start, and once it has been killed
\* ProcessPR has returned an error
AgentWaitBounded ==
    /\ (pc = "AgentRunning" /\ impl = "real") => now <= runs[1].at + Deadline + Grace
    /\ KilledCalls("RunWithStdin") # {} =>
        /\ pc = "done"
        /\ err # ErrNil
        /\ now <= runs[1].at + Deadline + Grace

\* C11: an agent that does not return is waited for no longer than the
\* deadline plus the grace period, and ProcessPR then returns an error that
\* says it was a timeout.
C11_AgentTimeoutClassified ==
    /\ AgentWaitBounded
    /\ KilledCalls("RunWithStdin") # {} => IsTimeoutError(err)

\* C12: when the lint or the test command was killed at the deadline,
\* ProcessPR does not go on: it posts no comment, commits nothing, and
\* returns an error.
C12_CheckTimeoutFails ==
    KilledCalls("RunWithOutput") # {} =>
        /\ CallIdx("PostComment") = {}
        /\ CallIdx("CommitAndPush") = {}
        /\ pc = "done" => err # ErrNil

\* C13: every command invocation of a call is given the one context made
\* before the agent started, whose deadline is the agent's start plus
\* Deadline: the lint and test runs get what the agent left of it, and an
\* invocation started at or after the deadline is not run: it fails at
\* once with the context's error.
C13_OneSharedDeadline ==
    /\ \A i \in DOMAIN runs :
        /\ runs[i].ctx = ctx
        /\ runs[i].ctx = runs[1].at + Deadline
        /\ i > 1 => runs[i].at >= runs[i - 1].at
    /\ \A i \in DOMAIN runs :
        (impl = "real" /\ runs[i].at >= runs[i].ctx) =>
            \E j \in CallIdx("RunWithOutput") :
                /\ calls[j].err # ErrNil
                /\ calls[j].err[Len(calls[j].err)] = "context deadline exceeded"
                /\ calls[j].ret = <<>>
                /\ calls[j].args = <<IF runs[i].step = "lint" THEN cfg.LintCommand
                                      ELSE cfg.TestCommand>>

C13_Witness ==
    /\ impl = "real"
    /\ Len(runs) = 3
    /\ runs[2].at < runs[2].ctx
    /\ runs[2].at > runs[1].at
    /\ runs[3].at >= runs[3].ctx
    /\ pc = "PostComment"

\* C20: once the caller has cancelled, the context given to the command in
\* flight is done, so that the command is killed.
C20_CallerCancelPropagates ==
    (cancelled /\ pc \in Running) => CtxDone(runs[Len(runs)].ctx)

\* C21: once the deadline of a command's context has passed, and the time
\* the runtime takes to kill has passed too, nothing that the call started
\* is running and the call is not waiting: no process is left behind by a
\* call that has returned, and no call is still reading a killed program's
\* output.
C21_NoProcessOutlivesDeadline ==
    /\ loc.orphans = {}
    /\ pc \notin Draining
    /\ (impl = "real" /\ pc \in Running) => now <= runs[Len(runs)].ctx + Grace

\* the remote that a logged GetGitHubRepository call read
RemoteRead(c) == TrimSpace(c.args)

\* C22: GetGitHubRepository gives the owner and the repository, without the
\* .git suffix, for the scp-like and the https remote of github.com alike,
\* with or without the suffix, and an error for a remote of another host
\* in either form.
C22_RemoteResolution ==
    \A i \in DOMAIN loc.cmdCalls :
        LET c == loc.cmdCalls[i]
        IN  c.op = "GetGitHubRepository" =>
            /\ \A sfx \in {<<>>, <<".git">>} :
                  RemoteRead(c) \in {SSHRemote(GitHubHost, <<"acme", SL, "widgets">> \o sfx),
                                     URLRemote("https://", <<>>, GitHubHost,
                                               <<"acme", SL, "widgets">> \o sfx)}
                  => c.err = ErrNil /\ c.ret = <<<<"acme">>, <<"widgets">>>>
            /\ \A h \in Hosts \ {GitHubHost}, p \in RepoPaths :
                  RemoteRead(c) \in {SSHRemote(h, p), URLRemote("https://", <<>>, h, p)}
                  => c.err # ErrNil /\ c.ret = <<>> /\ pc = "exit" /\ calls = <<>>

C22_Witness ==
    /\ pc = "CmdBranchExists"
    /\ RemoteRead(loc.cmdCalls[2]) = SSHRemote(GitHubHost, <<"acme", SL, "widgets", ".git">>)
    /\ loc.cmdCalls[2].ret = <<<<"acme">>, <<"widgets">>>>

\* the paths that the GetWorktreePath calls of the current run returned
PathsReturned == {calls[i].ret : i \in {j \in CallIdx("GetWorktreePath") : calls[j].err = ErrNil}}

\* C23: for one branch GetWorktreePath always returns the same path: the
\* calls of one run agree with each other, and with the path at which an
\* earlier run created the worktree of the branch, whatever was created or
\* changed into in between.
C23_PathDeterministic ==
    /\ Cardinality(PathsReturned) <= 1
    /\ (loc.branch \in BranchNames /\ createdBefore[loc.branch] # <<>>) =>
            PathsReturned \subseteq {createdBefore[loc.branch]}

\* the number of places of s that hold a token of set
CountIn(s, set) == Cardinality({k \in DOMAIN s : s[k] \in set})

\* what C24 asks of the section sec of a check that returned output and e:
\* one marker, that of the outcome; the output in a block of its own when
\* there is any; and no block but that of the error text when there is none
SectionShows(sec, output, e) ==
    /\ CountIn(sec, {FailedMark, PassedMark}) = 1
    /\ MarkerFor(e) \in Elems(sec)
    /\ CountIn(sec, {Fence}) = (IF e # ErrNil THEN 1 ELSE 0) + (IF output # <<>> THEN 1 ELSE 0)
    /\ e # ErrNil => Contains(sec, <<Fence>> \o e \o <<FenceEnd>>)
    /\ output # <<>> => Contains(sec, <<Fence>> \o output \o <<FenceEnd>>)

\* C24: in the comment that is posted, the section of the lint run and the
\* section of the test run each carry exactly one marker, that of the
\* check's own outcome, and the check's output as it was returned, in a
\* block of its own, when the output is not empty, whether or not an error
\* came with it; with an empty output the section has no block for it.
C24_ReportSections ==
    \A p \in CallIdx("PostComment") :
        LET lint == calls[p - 2]
            test == calls[p - 1]
            body == calls[p].args[1]
        IN  /\ lint.op = "RunWithOutput" /\ lint.args = <<cfg.LintCommand>>
            /\ test.op = "RunWithOutput" /\ test.args = <<cfg.TestCommand>>
            /\ Len(LintSection(body)) > 0 /\ LintSection(body)[1] = LintHeader
            /\ Len(TestSection(body)) > 0 /\ TestSection(body)[1] = TestHeader
            /\ SectionShows(LintSection(body), lint.ret, lint.err)
            /\ SectionShows(TestSection(body), test.ret, test.err)

C24_Witness ==
    /\ pc = "CommitAndPush"
    /\ \E p \in CallIdx("PostComment") :
        /\ calls[p - 2].err # ErrNil /\ calls[p - 2].ret # <<>>
        /\ calls[p - 1].err = ErrNil /\ calls[p - 1].ret = <<>>

\* C25: what the agent is given on stdin is the Instructions of the Worker,
\* a blank line, the opening line of the envelope, the PR information as
\* GetPRInfo returned it, and the closing line of the envelope, in that
\* order and with nothing before, between or after them.
C25_PromptExact ==
    \A i \in CallIdx("RunWithStdin") :
        LET prompt == calls[i].args[1]
            info == calls[1].ret
            n == Len(cfg.Instructions)
        IN  /\ calls[1].op = "GetPRInfo"
            /\ Len(prompt) = n + Len(info) + 3
            /\ Slice(prompt, 1, n) = cfg.Instructions
            /\ prompt[n + 1] = "\n\n"
            /\ prompt[n + 2] = "<pull-request>\n"
            /\ Slice(prompt, n + 3, Len(prompt) - 1) = info
            /\ prompt[Len(prompt)] = "\n</pull-request>"
            /\ calls[i].args[2] = cfg.AgentCommand

C25_Witness ==
    /\ pc = "RunLint"
    /\ calls[1].ret = InfoJSON(BranchFX)
    /\ Contains(calls[Len(calls)].args[1], InfoJSON(BranchFX))
    /\ calls[Len(calls)].op = "RunWithStdin"

\* the calls of op that the running command made itself
CmdCallIdx(op) == {i \in DOMAIN loc.cmdCalls : loc.cmdCalls[i].op = op}

\* C26: IsGitRepository returns no error, whatever became of the git
\* command it runs: it returns true when the command succeeded and false
\* when it failed, and on false the run command reports that the directory
\* is not a repository.
C26_IsGitRepositoryNeverErrors ==
    \A i \in CmdCallIdx("IsGitRepository") :
        LET c == loc.cmdCalls[i]
        IN  /\ c.err = ErrNil
            /\ c.ret = True <=> c.args = ErrNil
            /\ c.ret = False <=> c.args # ErrNil
            /\ c.ret = False =>
                /\ pc = "exit"
                /\ loc.cmdErr = <<"current directory is not a git repository">>

C26_Witness ==
    /\ loc.cmd = "run"
    /\ pc = "exit"
    /\ CmdCallIdx("IsGitRepository") = {1}
    /\ loc.cmdCalls[1].args = ErrExit
    /\ loc.cmdCalls[1].ret = False

\* the positions of the run command from which ProcessPR has been called
InProcessPR == loc.cmd = "run" /\ pc \notin {"idle", "exit", "CmdIsGitRepository",
                                              "CmdGetGitHubRepository", "CmdLoadInstructions"}

\* the argument of the run command is the decimal form of a positive number
PositiveArgument ==
    /\ loc.arg # <<>>
    /\ \A k \in DOMAIN loc.arg : loc.arg[k] \in {"0", "1", "2", "3"} \/ (k = 1 /\ loc.arg[k] = "+")
    /\ \E k \in DOMAIN loc.arg : loc.arg[k] \in {"1", "2", "3"}

\* C28: the run command calls ProcessPR only with a positive number parsed
\* from its argument, after IsGitRepository returned true and
\* GetGitHubRepository returned no error; with another argument, outside a
\* repository, or without a GitHub remote it returns an error and no
\* capability of the Worker is called; and when ProcessPR returns an error
\* the command returns an error that wraps it.
C28_RunCommandChecks ==
    loc.cmd = "run" =>
        /\ (InProcessPR \/ calls # <<>>) =>
            /\ PositiveArgument
            /\ loc.prNumber > 0
            /\ \E i \in CmdCallIdx("IsGitRepository") : loc.cmdCalls[i].ret = True
            /\ \E i \in CmdCallIdx("GetGitHubRepository") : loc.cmdCalls[i].err = ErrNil
            /\ \A i \in CallIdx("GetPRInfo") : calls[i].pr = loc.prNumber
        /\ (\/ ~PositiveArgument
            \/ \E i \in CmdCallIdx("IsGitRepository") : loc.cmdCalls[i].ret # True
            \/ \E i \in CmdCallIdx("GetGitHubRepository") : loc.cmdCalls[i].err # ErrNil) =>
            /\ pc = "exit"
            /\ loc.cmdDone
            /\ loc.cmdErr # ErrNil
            /\ calls = <<>>
        /\ (pc = "done" /\ loc.cmdDone) =>
            /\ err = ErrNil => loc.cmdErr = ErrNil
            /\ err # ErrNil =>
                /\ Len(loc.cmdErr) > Len(err)
                /\ loc.cmdErr[1] = "failed to process PR #"
                /\ Slice(loc.cmdErr, Len(loc.cmdErr) - Len(err) + 1, Len(loc.cmdErr)) = err

C28_Witness ==
    /\ loc.cmd = "run"
    /\ loc.arg = <<"+", "2">>
    /\ loc.prNumber = 2
    /\ pc = "done"
    /\ loc.cmdDone
    /\ err # ErrNil
    /\ loc.cmdErr # ErrNil
    /\ calls # <<>>

Changed == \E i \in CallIdx("ChangeDirectory") : calls[i].err = ErrNil

\* C29: with two runs in one process, a command of a run is started in
\* another directory than the run's own worktree only after the other run
\* has changed the working directory, and then in the other run's worktree;
\* and the configuration the Worker was built with stays as it was.
C29_OnlyDirectoryShared ==
    /\ pc # "idle" => cfg = DefaultConfig
    /\ \A i \in DOMAIN runs :
        runs[i].dir # loc.path =>
            /\ loc.peer.k > 6
            /\ runs[i].dir = loc.peer.path
    /\ \A i \in DOMAIN loc.peer.dirs :
        loc.peer.dirs[i] # loc.peer.path =>
            /\ Changed
            /\ loc.peer.dirs[i] = loc.path

C29_Witness ==
    /\ impl = "real"
    /\ loc.branch = BranchX
    /\ Len(runs) >= 1
    /\ runs[1].step = "agent"
    /\ runs[1].dir = loc.peer.path
    /\ loc.peer.path # loc.path
    /\ loc.path \in Paths(worktrees)

\* the calls that have to be made inside the worktree
WorktreeCalls == CallIdx("RunWithStdin") \cup CallIdx("RunWithOutput") \cup CallIdx("CommitAndPush")

\* C30: the agent, the lint and test commands and CommitAndPush are called
\* only after a ChangeDirectory into the path found for the branch has
\* returned no error in the same call; when the existence check, the path
\* lookup, the creation or the change of directory fails, ProcessPR returns
\* an error and calls none of them; so every command is started in the
\* worktree, never in the main checkout.
C30_CommandsOnlyInWorktree ==
    /\ \A i \in WorktreeCalls :
        \E j \in CallIdx("ChangeDirectory") :
            /\ j < i
            /\ calls[j].err = ErrNil
            /\ calls[j].args = <<loc.path>>
            /\ calls[j - 1].op = "GetWorktreePath"
            /\ calls[j - 1].ret = loc.path
    /\ (\/ Failed("CheckWorktreeExists") \/ Failed("GetWorktreePath")
        \/ Failed("CreateWorktree") \/ Failed("ChangeDirectory")) =>
            /\ WorktreeCalls = {}
            /\ runs = <<>>
            /\ pc = "done"
            /\ err # ErrNil
    /\ \A i \in DOMAIN runs : runs[i].dir = loc.path /\ runs[i].dir # Root

C30_Witness ==
    /\ Failed("ChangeDirectory")
    /\ CallIdx("CreateWorktree") # {}
    /\ ~Failed("CreateWorktree")
    /\ pc = "done"
    /\ WorktreeCalls = {}

\* the directories of the worktrees that have branch b checked out
WorktreesOf(b) == {w.path : w \in {v \in worktrees : v.branch = b}}

\* C31: the path ProcessPR is about to change into is that of a worktree
\* that exists for the branch of the pull request, wherever that worktree
\* was made, and once the change has succeeded the process is in it, with
\* GitRunner and with FakeLocalGit alike.
C31_ChangesIntoTheWorktree ==
    /\ pc = "ChangeDirectory" => loc.path \in WorktreesOf(loc.branch)
    /\ (Changed /\ pc \in {"RunAgent", "RunLint", "RunTest", "PostComment", "CommitAndPush"}) =>
            cwd \in WorktreesOf(loc.branch)

\* C32: CheckWorktreeExists answers true exactly when some worktree has the
\* very branch it was asked about checked out; a worktree on a branch whose
\* name only contains that name does not count.
C32_ExistsOnlyForExactBranch ==
    (pc \in {"GetWorktreePathNew", "GetWorktreePath"}
        /\ calls[Len(calls)].op = "CheckWorktreeExists") =>
        LET c == calls[Len(calls)]
        IN  /\ c.args = <<loc.branch>>
            /\ c.ret = True <=> WorktreesOf(loc.branch) # {}
            /\ c.ret = False <=> WorktreesOf(loc.branch) = {}

\* text t has one of keys in it, and the word that follows the first of them
HasKey(keys, t) == \E k \in DOMAIN t : t[k] \in keys
WordAfter(keys, t) == t[FirstNotIn(t, FirstIn(t, 1, keys) + 1, WS)]

\* the word a textual pattern with keys finds in a body and a comment, read
\* in that order
TextualWord(keys, body, comment) ==
    IF HasKey(keys, body) THEN WordAfter(keys, body) ELSE WordAfter(keys, comment)

\* C33: when the PR information has a headRefName field that names a
\* branch, that name is the branch, whatever branch: or head: text the body
\* or the comments hold; with no such name the first branch: text decides,
\* and the first head: text only when there is no branch: text at all;
\* extraction fails exactly when there is neither a name nor such text.
C33_StructuredFieldFirst ==
    \A b \in BodyTexts, c \in CommentTexts, r \in RefFields :
        (pc \in {"CheckWorktreeExists", "done"} /\ calls[Len(calls)].ret = ViewJSON(b, c, r)) =>
            LET named == r \notin {NoField, <<>>}
                byBranch == HasKey(BranchKeys, b \o c)
                byHead == HasKey(HeadKeys, b \o c)
            IN  /\ named => loc.branch = r
                /\ (~named /\ byBranch) =>
                        loc.branch # <<>> /\ loc.branch[1] = TextualWord(BranchKeys, b, c)
                /\ (~named /\ ~byBranch /\ byHead) =>
                        loc.branch # <<>> /\ loc.branch[1] = TextualWord(HeadKeys, b, c)
                /\ (named \/ byBranch \/ byHead) <=> (pc = "CheckWorktreeExists" /\ err = ErrNil)
                /\ ~(named \/ byBranch \/ byHead) <=>
                        /\ pc = "done"
                        /\ err = Wrap("failed to extract branch from PR info",
                                      <<"could not extract branch name from PR info">>)

C33_Witness ==
    /\ pc = "CheckWorktreeExists"
    /\ calls[1].ret = ViewJSON(<<"see", SP, "head:", SP, "h1", SP, "BRANCH:", SP, "b1">>,
                               <<"branch:", SP, "b2">>, BranchFX)
    /\ loc.branch = BranchFX

\* a call without what it returned, and without the body of a comment
Shape(c) == [op |-> c.op, pr |-> c.pr,
             args |-> IF c.op = "PostComment" THEN <<>> ELSE c.args]

\* the calls ProcessPR makes from the lint run on, given only how far it has
\* come and the errors that PostComment and CommitAndPush returned
CallsFromLint(n, postErr) ==
    LET all == <<[op |-> "RunWithOutput", pr |-> 0, args |-> <<cfg.LintCommand>>],
                 [op |-> "RunWithOutput", pr |-> 0, args |-> <<cfg.TestCommand>>],
                 [op |-> "PostComment", pr |-> loc.prNumber, args |-> <<>>],
                 [op |-> "CommitAndPush", pr |-> 0,
                  args |-> <<<<"Automated changes from kratt worker">>>>]>>
    IN  Slice(all, 1, n)

\* C34: from the lint run on, the calls of ProcessPR (their names and
\* arguments, the comment's body aside) and the error it returns are fixed
\* by the configuration, the PR number and the errors of PostComment and
\* CommitAndPush; nothing that the lint or the test run returned has a part
\* in them, so two runs that differ in those only make the same calls and
\* return the same.
C34_ChecksDoNotSteer ==
    \A k \in CallIdx("RunWithStdin") :
        (calls[k].err = ErrNil /\ Len(calls) > k) =>
            LET n == Len(calls) - k
                post == IF n >= 3 THEN calls[k + 3].err ELSE ErrNil
                push == IF n >= 4 THEN calls[k + 4].err ELSE ErrNil
            IN  /\ n <= 4
                /\ [i \in 1..n |-> Shape(calls[k + i])] = CallsFromLint(n, post)
                /\ pc = "done" <=> (post # ErrNil \/ n = 4)
                /\ pc = "done" =>
                    err = IF post # ErrNil THEN Wrap("failed to post comment", post)
                          ELSE IF push # ErrNil THEN Wrap("failed to commit and push", push)
                          ELSE ErrNil
                /\ pc # "done" =>
                    /\ err = ErrNil
                    /\ pc = IF n = 1 /\ cfg.TestCommand = <<>>
                            THEN IF pc = "panic" THEN "panic" ELSE "RunTest"
                            ELSE <<"RunTest", "PostComment", "CommitAndPush">>[n]

C34_Witness ==
    /\ pc = "done"
    /\ err = ErrNil
    /\ \E i \in CallIdx("RunWithOutput") :
        /\ calls[i].err # ErrNil
        /\ calls[i + 1].op = "RunWithOutput"
        /\ calls[i + 1].err = ErrNil
        /\ calls[i + 1].ret # <<>>
    /\ calls[Len(calls)].op = "CommitAndPush"


\* the worktree that the successful CreateWorktree call at index i made
CreatedBy(i) == [path |-> calls[i].args[2], branch |-> calls[i].args[1]]

C36_CommentBeforePush ==
    \A j \in CallIdx("CommitAndPush") :
        /\ j > 1
        /\ calls[j - 1].op = "PostComment"
        /\ calls[j - 1].pr = loc.prNumber
        /\ calls[j - 1].err = ErrNil
        /\ calls[j - 1].args = <<loc.commentBody>>
        /\ CallIdx("PostComment") = {j - 1}
        /\ j = Len(calls)
        /\ calls[j].err # ErrNil =>
            /\ pc = "done"
            /\ err = Wrap("failed to commit and push", calls[j].err)

C36_Witness ==
    /\ pc = "done"
    /\ err # ErrNil
    /\ calls # <<>>
    /\ calls[Len(calls)].op = "CommitAndPush"
    /\ calls[Len(calls)].err # ErrNil
    /\ calls[Len(calls) - 1].op = "PostComment"
    /\ calls[Len(calls) - 1].err = ErrNil


\* C37: the deadline of every command that a run of ProcessPR starts is the
\* configured Deadline after the start of the run (the run starts at time
\* 0), so that the time taken to fetch the pull request and to prepare the
\* worktree is taken from what the agent, the lint and the test run get.
C37_DeadlineFromStart ==
    \A i \in DOMAIN runs : runs[i].ctx = Deadline


\* C38: a call of GetGitHubRepository that returned no error returned an
\* owner and a repository name that are both non-empty.
C38_OwnerAndNameNonEmpty ==
    \A i \in CmdCallIdx("GetGitHubRepository") :
        loc.cmdCalls[i].err = ErrNil =>
            /\ loc.cmdCalls[i].ret[1] # <<>>
            /\ loc.cmdCalls[i].ret[2] # <<>>


\* the SetResponse calls for the key of cmd before call i, and the last of them
SetBefore(cmd, i) ==
    {j \in 1..(i - 1) : calls[j].op = "SetResponse" /\ calls[j].args[1] = CmdKey(cmd)}
LastSet(cmd, i) == calls[CHOOSE j \in SetBefore(cmd, i) : \A k \in SetBefore(cmd, i) : k <= j]

\* C39: FakeCommandRunner answers a command with what the last SetResponse
\* for it set: RunWithOutput returns that output and that error (no error
\* when it was set with none), RunWithStdin returns that error, and a
\* command never set gets the default output and no error; the stdin of the
\* last RunWithStdin of a command is recorded under the command's key.
C39_LastResponseWins ==
    \A i \in DOMAIN calls :
        LET c == calls[i]
        IN  /\ c.op = "RunWithOutput" =>
                IF SetBefore(c.args[1], i) = {}
                THEN c.ret = DefaultOutput /\ c.err = ErrNil
                ELSE /\ c.ret = LastSet(c.args[1], i).args[2]
                     /\ c.err = LastSet(c.args[1], i).args[3]
            /\ c.op = "RunWithStdin" =>
                /\ c.err = IF SetBefore(c.args[2], i) = {} THEN ErrNil
                           ELSE LastSet(c.args[2], i).args[3]
                /\ (\A j \in (i + 1)..Len(calls) :
                        ~(calls[j].op = "RunWithStdin" /\ calls[j].args[2] = c.args[2]))
                    => GetStdinInput(loc.runner, CmdKey(c.args[2])) = c.args[1]

====
